---- MODULE Spec2Model ----
(***************************************************************************)
(* A model of rom-thumbnails-downloader (src/rom_thumbnails_downloader/    *)
(* cli.py): the title normaliser clean_title, the region selector          *)
(* apply_region_preference, the catalog loader load_csv_data, the ROM      *)
(* discovery discover_roms and the join generate_wget_commands.            *)
(*                                                                         *)
(* A string is a sequence of one-character strings, so that the character  *)
(* scans of the code (rfind, the depth scan, the regular expression, the   *)
(* path and URL parsing) are modelled as scans.                            *)
(***************************************************************************)
EXTENDS Integers, Sequences, FiniteSets, TLC

VARIABLES
    \* clean_title(raw): the argument, the local `title`, the position in the
    \* function body and the value returned
    raw, title, pc, result,
    \* apply_region_preference(entries, region_priority): the arguments, the
    \* position of the outer loop in region_priority, the position in the
    \* function body and the value returned
    entries, region_priority, region_idx, rpc, preferred,
    \* load_csv_data(data_dir, thumbnail_order, region_priority): the files
    \* of data_dir, the two priority arguments, the files the loop has still
    \* to visit, the position in the function body and image_map
    csv_files, thumbnail_order, load_region_priority, pending_files, lpc,
    image_map,
    \* discover_roms(rom_root): the entries rom_root.glob("*/*") lists, the
    \* position of the loop in them, rom_map, the lines printed so far and
    \* the position in the function body
    rom_files, file_idx, rom_map, diagnostics, dpc,
    \* generate_wget_commands(image_map, rom_map): the positions of the two
    \* loops, the commands yielded so far and the position in the function
    \* body
    console_idx, rom_idx, commands, gpc,
    \* validate_thumbnail_order(order_string) and
    \* validate_region_priority(priority_string): the arguments, the values
    \* returned (or the exception raised) and the position in the sequence
    \* of the two calls
    order_string, priority_string, validated_order, validated_priority, vpc,
    \* main: the position in its body, the lines written to sys.stdout and
    \* to sys.stderr, the exit status, the accesses to the file system so
    \* far, and for a second run on the same inputs the number of the run
    \* and the standard output and file system accesses of the first run
    mpc, stdout, stderr, exit_status, io_log, run, first_run

cleanVars == <<raw, title, pc, result>>
regionVars == <<entries, region_priority, region_idx, rpc, preferred>>
loadVars ==
    <<csv_files, thumbnail_order, load_region_priority, pending_files, lpc,
      image_map>>
discoverVars == <<rom_files, file_idx, rom_map, diagnostics, dpc>>
generateVars == <<console_idx, rom_idx, commands, gpc>>
validateVars ==
    <<order_string, priority_string, validated_order, validated_priority, vpc>>
mainVars == <<mpc, stdout, stderr, exit_status, io_log, run, first_run>>
vars ==
    <<cleanVars, regionVars, loadVars, discoverVars, generateVars,
      validateVars, mainVars>>

\* what each function leaves alone: the variables of the other functions
notClean ==
    <<regionVars, loadVars, discoverVars, generateVars, validateVars,
      mainVars>>
notRegion ==
    <<cleanVars, loadVars, discoverVars, generateVars, validateVars,
      mainVars>>
notLoad ==
    <<cleanVars, regionVars, discoverVars, generateVars, validateVars,
      mainVars>>
notJoin ==
    <<cleanVars, regionVars, csv_files, thumbnail_order,
      load_region_priority, pending_files, lpc, validateVars, mainVars>>
notValidate ==
    <<cleanVars, regionVars, loadVars, discoverVars, generateVars, mainVars>>

----------------------------------------------------------------------------
(* Bounds of the model *)

\* longest argument of clean_title that is explored
MaxLen == 5
\* longest file extension / annotation appended to a title
MaxExt == 2
\* longest title of the entry of a candidate list that is explored in full
MaxTitleLen == 4
\* longest candidate list handed to apply_region_preference
MaxEntries == 2
\* most rows of a catalog file
MaxRows == 3
\* most entries of the ROM directory listing
MaxFiles == 3
\* most pieces (tokens, commas, blanks) of a --thumbnail-order or
\* --region-priority argument that is explored in full
MaxPieces == 5

\* Python's None (no string of the model is this one-element sequence)
None == <<"None">>

----------------------------------------------------------------------------
(* Strings *)

\* all strings over the alphabet A of length lo..hi
Strings(A, lo, hi) == UNION {[1..n -> A] : n \in lo..hi}

\* str.find(c): the first position of character c in s, 0 when absent
Find(s, c) ==
    IF \E i \in 1..Len(s) : s[i] = c
    THEN CHOOSE i \in 1..Len(s) : s[i] = c /\ \A j \in 1..(i-1) : s[j] # c
    ELSE 0

\* str.rfind(c): the last position of character c in s, 0 when absent
\* (Python's -1; positions are 1-based here)
RFind(s, c) ==
    IF \E i \in 1..Len(s) : s[i] = c
    THEN CHOOSE i \in 1..Len(s) : s[i] = c /\ \A j \in (i+1)..Len(s) : s[j] # c
    ELSE 0

\* `sub in s` of Python
Contains(s, sub) ==
    \E i \in 0..(Len(s) - Len(sub)) : SubSeq(s, i+1, i+Len(sub)) = sub

\* the characters str.strip() removes (of the model's alphabet)
Whitespace == {" "}

RECURSIVE LStrip(_)
LStrip(s) ==
    IF s # <<>> /\ Head(s) \in Whitespace THEN LStrip(Tail(s)) ELSE s

RECURSIVE RStrip(_)
RStrip(s) ==
    IF s # <<>> /\ s[Len(s)] \in Whitespace
    THEN RStrip(SubSeq(s, 1, Len(s)-1)) ELSE s

\* str.strip()
Strip(s) == RStrip(LStrip(s))

\* str.split(sep) for a one-character separator: the pieces between separators
RECURSIVE Split(_, _)
Split(s, sep) ==
    IF Find(s, sep) = 0 THEN <<s>>
    ELSE <<SubSeq(s, 1, Find(s, sep) - 1)>>
         \o Split(SubSeq(s, Find(s, sep) + 1, Len(s)), sep)

----------------------------------------------------------------------------
(* pathlib (PurePosixPath) *)

IsPathPart(x) == x # <<>> /\ x # <<".">>

\* the parts of a relative or absolute POSIX path: split on "/", empty and
\* "." components dropped
PathParts(s) == SelectSeq(Split(s, "/"), IsPathPart)

\* Path(s).name: the last part, empty when there is none
PathName(s) ==
    IF PathParts(s) = <<>> THEN <<>> ELSE PathParts(s)[Len(PathParts(s))]

\* Path(s).suffix: from the last "." of the name on, when that "." is neither
\* the first nor the last character of the name
PathSuffix(s) ==
    LET name == PathName(s)
        i == RFind(name, ".")
    IN IF 1 < i /\ i < Len(name) THEN SubSeq(name, i, Len(name)) ELSE <<>>

\* a stem that cuts at the last "." wherever it stands in the name
PathStemAnyDot(s) ==
    LET name == PathName(s)
        i == RFind(name, ".")
    IN IF 1 <= i THEN SubSeq(name, 1, i-1) ELSE name

\* Path(s).stem: the name without its suffix
PathStem(s) ==
    LET name == PathName(s)
        i == RFind(name, ".")
    IN IF 1 < i /\ i < Len(name) THEN SubSeq(name, 1, i-1) ELSE name

----------------------------------------------------------------------------
(* clean_title *)

\* the depth scan of one loop iteration: from position i on, with the
\* current paren_count, the position of the ")" that brings the count back to
\* zero, 0 (Python's -1) when there is none
RECURSIVE ScanClose(_, _, _)
ScanClose(s, i, paren_count) ==
    IF i > Len(s) THEN 0
    ELSE IF s[i] = "(" THEN ScanClose(s, i+1, paren_count + 1)
    ELSE IF s[i] = ")"
         THEN IF paren_count - 1 = 0 THEN i
              ELSE ScanClose(s, i+1, paren_count - 1)
    ELSE ScanClose(s, i+1, paren_count)

close_pos(s) == ScanClose(s, RFind(s, "("), 0)

\* an iteration that removes the last group alone and keeps what follows it
StripLastGroupKeepsRest(s) ==
    LET last_open == RFind(s, "(")
    IN IF close_pos(s) = 0
       THEN SubSeq(s, 1, last_open - 1)
       ELSE SubSeq(s, 1, last_open - 1) \o SubSeq(s, close_pos(s) + 1, Len(s))

\* an iteration that truncates only when the last "(" is closed, and leaves
\* an unmatched "(" where it is
StripLastGroupKeepsUnmatched(s) ==
    LET last_open == RFind(s, "(")
    IN IF close_pos(s) = 0 THEN s ELSE SubSeq(s, 1, last_open - 1)

\* one iteration of the while loop, for a title that holds a "(":
\* both branches of `if close_pos == -1` assign title[:last_open]
StripLastGroup(s) ==
    LET last_open == RFind(s, "(")
    IN IF close_pos(s) = 0
       THEN SubSeq(s, 1, last_open - 1)
       ELSE SubSeq(s, 1, last_open - 1)

\* the while loop run to its break
RECURSIVE StripLoop(_)
StripLoop(s) ==
    IF RFind(s, "(") = 0 THEN s ELSE StripLoop(StripLastGroup(s))

\* the function as a whole
clean_title(s) == Strip(StripLoop(PathStem(s)))

----------------------------------------------------------------------------
(* apply_region_preference *)

DEFAULT_REGION_ORDER ==
    << <<"u", "s", "a">>,
       <<"e", "u", "r", "o", "p", "e">>,
       <<"w", "o", "r", "l", "d">> >>

\* str.lower() on the letters of the model's alphabets
LowerChar(c) ==
    CASE c = "U" -> "u"
      [] c = "S" -> "s"
      [] c = "A" -> "a"
      [] c = "E" -> "e"
      [] OTHER -> c

Lower(s) == [i \in 1..Len(s) |-> LowerChar(s[i])]

\* the first position >= p of character c in s, 0 when there is none
FindFrom(s, c, p) ==
    IF \E i \in p..Len(s) : s[i] = c
    THEN CHOOSE i \in p..Len(s) : s[i] = c /\ \A j \in p..(i-1) : s[j] # c
    ELSE 0

\* re.findall(r"\(([^)]+)\)", s) from position p on: the scan goes left to
\* right; a match starts at a "(" followed by at least one character other
\* than ")" and ends at the next ")"; the search resumes after that ")".
RECURSIVE FindAllParens(_, _)
FindAllParens(s, p) ==
    IF p > Len(s) THEN <<>>
    ELSE IF s[p] # "(" THEN FindAllParens(s, p + 1)
    ELSE LET j == FindFrom(s, ")", p + 1)
         IN IF j = 0 \/ j = p + 1
            THEN FindAllParens(s, p + 1)
            ELSE <<SubSeq(s, p + 1, j - 1)>> \o FindAllParens(s, j + 1)

\* the first match alone: re.search in the place of re.findall
paren_matches_first(t) ==
    IF FindAllParens(t, 1) = <<>> THEN <<>> ELSE <<Head(FindAllParens(t, 1))>>

paren_matches(t) == FindAllParens(t, 1)

\* a region test that looks for the token anywhere in the title
RegionMatchesAnywhere(region, t) == Contains(Lower(t), Lower(region))

\* the innermost loop: some parenthesised content holds the region,
\* both lower-cased
RegionMatches(region, t) ==
    \E k \in 1..Len(paren_matches(t)) :
        Contains(Lower(paren_matches(t)[k]), Lower(region))

\* an inner loop that keeps the last entry the region matches
LastMatch(es, region) ==
    IF \E i \in 1..Len(es) : RegionMatches(region, es[i][1])
    THEN CHOOSE i \in 1..Len(es) :
            /\ RegionMatches(region, es[i][1])
            /\ \A j \in (i+1)..Len(es) : ~RegionMatches(region, es[j][1])
    ELSE 0

\* `for title, url in entries` for one region: the position of the first
\* entry the region matches, 0 when it matches none
FirstMatch(es, region) ==
    IF \E i \in 1..Len(es) : RegionMatches(region, es[i][1])
    THEN CHOOSE i \in 1..Len(es) :
            /\ RegionMatches(region, es[i][1])
            /\ \A j \in 1..(i-1) : ~RegionMatches(region, es[j][1])
    ELSE 0

\* `region_priority = DEFAULT_REGION_ORDER` when None is passed
EffectivePriority(rp) == IF rp = None THEN DEFAULT_REGION_ORDER ELSE rp

\* `return entries[0][1]` after the loops
RegionFallback(es) == es[1][2]

\* a single-entry shortcut that returns the title instead of the URL
SingleEntryTitle(es) == es[1][1]

\* `if len(entries) == 1: return entries[0][1]`
SingleEntry(es) == es[1][2]

\* `for region in region_priority` from position r on
RECURSIVE RegionLoop(_, _, _)
RegionLoop(es, rp, r) ==
    IF r > Len(rp) THEN RegionFallback(es)
    ELSE IF FirstMatch(es, rp[r]) # 0 THEN es[FirstMatch(es, rp[r])][2]
    ELSE RegionLoop(es, rp, r + 1)

\* the function as a whole
apply_region_preference(es, rp) ==
    IF es = <<>> THEN None
    ELSE IF Len(es) = 1 THEN SingleEntry(es)
    ELSE RegionLoop(es, EffectivePriority(rp), 1)

----------------------------------------------------------------------------
(* load_csv_data *)

THUMBNAIL_TYPE_MAPPING ==
    [t \in {"snapshot", "boxart", "title_screen"} |->
        CASE t = "snapshot" -> "Named_Snaps"
          [] t = "boxart" -> "Named_Boxarts"
          [] t = "title_screen" -> "Named_Titles"]

DEFAULT_THUMBNAIL_ORDER == <<"snapshot", "boxart", "title_screen">>

\* image types that ignore the requested order: always the three of them
csv_image_types_all(order) ==
    [i \in 1..3 |-> THUMBNAIL_TYPE_MAPPING[DEFAULT_THUMBNAIL_ORDER[i]]]

\* `csv_image_types = [THUMBNAIL_TYPE_MAPPING[t] for t in thumbnail_order]`,
\* with the default order for None
csv_image_types(order) ==
    LET o == IF order = None THEN DEFAULT_THUMBNAIL_ORDER ELSE order
    IN [i \in 1..Len(o) |-> THUMBNAIL_TYPE_MAPPING[o[i]]]

InSeq(x, sq) == \E i \in 1..Len(sq) : sq[i] = x

\* the rows the inner `if`s let through: three fields or more and a
\* requested image type
RowCounts(row, types) == Len(row) >= 3 /\ InSeq(row[1], types)

\* a grouping that takes a row of two fields as a row without URL
RECURSIVE TypeEntriesShortRows(_, _, _, _)
TypeEntriesShortRows(rows, types, clean_name, image_type) ==
    IF rows = <<>> THEN <<>>
    ELSE LET row == Head(rows)
             rest == TypeEntriesShortRows(Tail(rows), types, clean_name,
                                          image_type)
         IN IF /\ Len(row) >= 2
               /\ row[1] = image_type
               /\ clean_title(row[2]) = clean_name
            THEN << <<row[2], IF Len(row) >= 3 THEN row[3] ELSE <<>> >> >>
                 \o rest
            ELSE rest

\* console_entries[clean_name][image_type]: the (title, url) pairs of the
\* rows of that type and clean name, in row order
RECURSIVE TypeEntries(_, _, _, _)
TypeEntries(rows, types, clean_name, image_type) ==
    IF rows = <<>> THEN <<>>
    ELSE LET row == Head(rows)
             rest == TypeEntries(Tail(rows), types, clean_name, image_type)
         IN IF /\ RowCounts(row, types)
               /\ row[1] = image_type
               /\ clean_title(row[2]) = clean_name
            THEN << <<row[2], row[3]>> >> \o rest
            ELSE rest

\* the keys of console_entries
CleanNames(rows, types) ==
    {clean_title(rows[i][2]) : i \in {j \in 1..Len(rows) : RowCounts(rows[j], types)}}

\* Python's truth value of an Optional[str]
Truthy(u) == u # None /\ u # <<>>

\* a loop over the types without the `break`: the last type with candidates
\* decides
RECURSIVE TypeLoopNoBreak(_, _, _, _, _, _)
TypeLoopNoBreak(rows, types, rp, clean_name, i, selected_url) ==
    IF i > Len(types) THEN selected_url
    ELSE LET es == TypeEntries(rows, types, clean_name, types[i])
         IN IF es # <<>>
            THEN TypeLoopNoBreak(rows, types, rp, clean_name, i + 1,
                                 apply_region_preference(es, rp))
            ELSE TypeLoopNoBreak(rows, types, rp, clean_name, i + 1,
                                 selected_url)

\* `for csv_image_type in csv_image_types` from position i on, with the
\* current value of selected_url
RECURSIVE TypeLoop(_, _, _, _, _, _)
TypeLoop(rows, types, rp, clean_name, i, selected_url) ==
    IF i > Len(types) THEN selected_url
    ELSE LET es == TypeEntries(rows, types, clean_name, types[i])
             url == apply_region_preference(es, rp)
         IN IF es # <<>>
            THEN IF Truthy(url) THEN url
                 ELSE TypeLoop(rows, types, rp, clean_name, i + 1, url)
            ELSE TypeLoop(rows, types, rp, clean_name, i + 1, selected_url)

SelectedUrl(rows, types, rp, clean_name) ==
    TypeLoop(rows, types, rp, clean_name, 1, None)

\* console_map: the clean names with a true selected_url
ConsoleMap(rows, types, rp) ==
    [clean_name \in {k \in CleanNames(rows, types) :
                        Truthy(SelectedUrl(rows, types, rp, k))} |->
        SelectedUrl(rows, types, rp, clean_name)]

\* a store that keeps only the first console stored
\* a file whose reading or parsing raised after `rows` had been grouped,
\* were the rows grouped so far still selected from
FailedFileKeepsRows(im, c, rows, types, rp) ==
    [x \in DOMAIN im \cup {c} |->
        IF x = c THEN ConsoleMap(rows, types, rp) ELSE im[x]]

\* `except Exception: continue`: the file is left out, console_entries of
\* the rows grouped before the exception is dropped with the iteration
FailedFile(im, c, rows, types, rp) == im

MapPutIfEmpty(f, k, v) == IF DOMAIN f = {} THEN [x \in {k} |-> v] ELSE f

\* image_map[console_name] = console_map
MapPut(f, k, v) == [x \in DOMAIN f \cup {k} |-> IF x = k THEN v ELSE f[x]]

EmptyMap == [x \in {} |-> None]

----------------------------------------------------------------------------
(* validate_thumbnail_order, validate_region_priority *)

Snapshot == <<"s", "n", "a", "p", "s", "h", "o", "t">>
Boxart == <<"b", "o", "x", "a", "r", "t">>
TitleScreen == <<"t", "i", "t", "l", "e", "_", "s", "c", "r", "e", "e", "n">>

\* the keys of THUMBNAIL_TYPE_MAPPING as the characters of an argument
valid_types == {Snapshot, Boxart, TitleScreen}

\* the key of THUMBNAIL_TYPE_MAPPING a valid token is
TypeOf(t) ==
    CASE t = Snapshot -> "snapshot"
      [] t = Boxart -> "boxart"
      [] t = TitleScreen -> "title_screen"

\* a removal of repeats that keeps the last occurrence of a token
RECURSIVE RemoveDuplicatesKeepLast(_)
RemoveDuplicatesKeepLast(ts) ==
    IF ts = <<>> THEN <<>>
    ELSE IF InSeq(Head(ts), Tail(ts)) THEN RemoveDuplicatesKeepLast(Tail(ts))
    ELSE <<Head(ts)>> \o RemoveDuplicatesKeepLast(Tail(ts))

\* the `seen` / `result` loop of both validators, on the tokens from
\* position i on with the result so far
RECURSIVE SeenLoop(_, _, _)
SeenLoop(ts, i, res) ==
    IF i > Len(ts) THEN res
    ELSE IF InSeq(ts[i], res) THEN SeenLoop(ts, i + 1, res)
    ELSE SeenLoop(ts, i + 1, Append(res, ts[i]))

RemoveDuplicates(ts) == SeenLoop(ts, 1, <<>>)

\* `types = [t.strip() for t in order_string.split(",")]`
ThumbnailTokens(s) ==
    [i \in 1..Len(Split(s, ",")) |-> Strip(Split(s, ",")[i])]

\* the first token the validation loop rejects, None when it rejects none
FirstInvalid(ts) ==
    IF \E i \in 1..Len(ts) : ts[i] \notin valid_types
    THEN ts[CHOOSE i \in 1..Len(ts) :
                /\ ts[i] \notin valid_types
                /\ \A j \in 1..(i-1) : ts[j] \in valid_types]
    ELSE None

\* a validation that drops the tokens it does not know
validate_thumbnail_order_lenient(s) ==
    LET known == SelectSeq(ThumbnailTokens(s), LAMBDA t : t \in valid_types)
        r == RemoveDuplicates(known)
    IN [raised |-> FALSE,
        value |-> IF r = <<>> THEN DEFAULT_THUMBNAIL_ORDER
                  ELSE [i \in 1..Len(r) |-> TypeOf(r[i])]]

\* validate_thumbnail_order: the list returned, or the ValueError raised
\* with the token it names
validate_thumbnail_order(s) ==
    IF Strip(s) = <<>>
    THEN [raised |-> FALSE, value |-> DEFAULT_THUMBNAIL_ORDER]
    ELSE IF FirstInvalid(ThumbnailTokens(s)) # None
    THEN [raised |-> TRUE, value |-> FirstInvalid(ThumbnailTokens(s))]
    ELSE [raised |-> FALSE,
          value |-> LET r == RemoveDuplicates(ThumbnailTokens(s))
                    IN [i \in 1..Len(r) |-> TypeOf(r[i])]]

IsToken(x) == Strip(x) # <<>>

\* a list of regions that keeps the empty pieces of the argument
RegionTokensWithEmpty(s) ==
    [i \in 1..Len(Split(s, ",")) |-> Lower(Strip(Split(s, ",")[i]))]

\* `regions = [r.strip().lower() for r in priority_string.split(",")
\*             if r.strip()]`
RegionTokens(s) ==
    LET kept == SelectSeq(Split(s, ","), IsToken)
    IN [i \in 1..Len(kept) |-> Lower(Strip(kept[i]))]

\* validate_region_priority
validate_region_priority(s) ==
    IF Strip(s) = <<>> THEN DEFAULT_REGION_ORDER
    ELSE IF RemoveDuplicates(RegionTokens(s)) # <<>>
    THEN RemoveDuplicates(RegionTokens(s))
    ELSE DEFAULT_REGION_ORDER

----------------------------------------------------------------------------
(* discover_roms *)

\* libretro system names, the values of CONSOLE_MAPPING
GENESIS == "Sega_-_Mega_Drive_-_Genesis"
MAME == "MAME"
SNES == "Nintendo_-_Super_Nintendo_Entertainment_System"

\* the rows of CONSOLE_MAPPING for the folders of the model
CONSOLE_MAPPING ==
    [f \in {"genesis", "megadrive", "mame", "snes"} |->
        CASE f = "genesis" -> GENESIS
          [] f = "megadrive" -> GENESIS
          [] f = "mame" -> MAME
          [] f = "snes" -> SNES]

\* every folder name passed through as it is, aliases included
MapConsoleIdentity(raw_console_name) == raw_console_name

\* CONSOLE_MAPPING.get(raw_console_name, raw_console_name)
MapConsole(raw_console_name) ==
    IF raw_console_name \in DOMAIN CONSOLE_MAPPING
    THEN CONSOLE_MAPPING[raw_console_name]
    ELSE raw_console_name

\* a test of the clean name that lets every file through
EmptyNameNever(clean_name) == FALSE

\* `if not clean_name`
EmptyName(clean_name) == clean_name = <<>>

\* a directory entry rom_root/folder/name, and whether it is a regular file
DirEntry(folder, name, is_file) ==
    [folder |-> folder, name |-> name, is_file |-> is_file]

\* rom_file.absolute(): rom_root/folder/name
AbsPath(f) == <<f.folder, f.name>>

\* rom_map is a dict of dicts, both in insertion order: a sequence of
\* <<console, roms>> where roms is a sequence of <<clean_name, path>>
ConsoleAt(rm, console) ==
    IF \E i \in 1..Len(rm) : rm[i][1] = console
    THEN CHOOSE i \in 1..Len(rm) : rm[i][1] = console
    ELSE 0

RomsOf(rm, console) ==
    IF ConsoleAt(rm, console) = 0 THEN <<>> ELSE rm[ConsoleAt(rm, console)][2]

\* `clean_name in rom_map[console_name]`
HasRom(rm, console, clean_name) ==
    \E i \in 1..Len(RomsOf(rm, console)) :
        RomsOf(rm, console)[i][1] = clean_name

\* `rom_map[console_name][clean_name] = path` for a new clean name: the
\* console is appended when it is new, the ROM is appended to its console
RomAdd(rm, console, clean_name, path) ==
    IF ConsoleAt(rm, console) = 0
    THEN Append(rm, <<console, << <<clean_name, path>> >> >>)
    ELSE [rm EXCEPT ![ConsoleAt(rm, console)][2] =
                        Append(@, <<clean_name, path>>)]

\* a duplicate that replaces the entry kept so far
DuplicateReplaces(rm, console, clean_name, path) ==
    [rm EXCEPT ![ConsoleAt(rm, console)][2] =
        [i \in 1..Len(@) |->
            IF @[i][1] = clean_name THEN <<clean_name, path>> ELSE @[i]]]

\* the duplicate branch: a warning and `continue`, rom_map stays as it is
DuplicateKeepsFirst(rm, console, clean_name, path) == rm

\* the lines discover_roms prints
DuplicateWarning(console, clean_name) == <<"duplicate", console, clean_name>>
UnmappedWarning(raw_console_name) == <<"unmapped", raw_console_name>>

\* a duplicate branch placed after the test of the console mapping: the
\* duplicate of a folder without mapping prints both warnings
WarnUnmappedThenDuplicate(printed, raw_console_name, c, key) ==
    IF raw_console_name \in DOMAIN CONSOLE_MAPPING
    THEN Append(printed, DuplicateWarning(c, key))
    ELSE printed \o <<UnmappedWarning(raw_console_name),
                      DuplicateWarning(c, key)>>

\* the duplicate branch: its warning, and `continue` before the test of the
\* console mapping
WarnDuplicate(printed, raw_console_name, c, key) ==
    Append(printed, DuplicateWarning(c, key))

----------------------------------------------------------------------------
(* generate_wget_commands *)

\* the line generate_wget_commands prints for a console without catalog
MissingWarning(c) == <<"missing", c>>

\* a warning for every ROM of the console without catalog
WarnMissingPerRom(printed, c, console_roms) ==
    printed \o [j \in 1..Len(console_roms) |-> MissingWarning(c)]

\* `if console not in image_map: print(...)`: one line, in the loop over the
\* consoles, before `continue` leaves the ROMs of the console unvisited
WarnMissing(printed, c, console_roms) == Append(printed, MissingWarning(c))

\* the letters of the model's URLs, and scheme_chars: what a scheme is made of
Letters == {"s", "h", "g", "k", "j", "a", "b", "p", "n", "v", "x"}
SchemeChars == Letters \cup {".", "+", "-"}

\* urlparse(url).path: the URL without its leading spaces, its scheme ("s:"),
\* its network location ("//h"), its fragment and its query
UrlWithoutScheme(url) ==
    LET i == Find(url, ":")
    IN IF i > 1 /\ url[1] \in Letters
             /\ \A j \in 1..(i-1) : url[j] \in SchemeChars
       THEN SubSeq(url, i + 1, Len(url))
       ELSE url

\* the end of the network location: the first "/", "?" or "#" from p on
NetlocEnd(url, p) ==
    IF \E i \in p..Len(url) : url[i] \in {"/", "?", "#"}
    THEN CHOOSE i \in p..Len(url) :
            /\ url[i] \in {"/", "?", "#"}
            /\ \A j \in p..(i-1) : url[j] \notin {"/", "?", "#"}
    ELSE Len(url) + 1

UrlWithoutNetloc(url) ==
    IF Len(url) >= 2 /\ SubSeq(url, 1, 2) = <<"/", "/">>
    THEN SubSeq(url, NetlocEnd(url, 3), Len(url))
    ELSE url

Before(s, c) == IF Find(s, c) = 0 THEN s ELSE SubSeq(s, 1, Find(s, c) - 1)

UrlPath(url) ==
    Before(Before(UrlWithoutNetloc(UrlWithoutScheme(LStrip(url))), "#"), "?")

DotPng == <<".", "p", "n", "g">>

\* image_ext: the suffix of the URL's path, ".png" when it has none
ImageExt(url) ==
    IF PathSuffix(UrlPath(url)) # <<>> THEN PathSuffix(UrlPath(url))
    ELSE DotPng

\* rom_path.with_suffix(image_ext): the name without its suffix, plus the
\* new suffix, in the same folder
WithSuffix(path, ext) == <<path[1], PathStem(path[2]) \o ext>>

\* a destination named after the ROM but placed in rom_root itself
DestPathInRoot(rom_path, url) ==
    <<"rom_root", PathStem(rom_path[2]) \o ImageExt(url)>>

\* dest_path
DestPath(rom_path, url) == WithSuffix(rom_path, ImageExt(url))

\* an existence test that never finds the destination
NeverExists(files, path) == FALSE

\* a test that finds the destination only when it is a directory
ExistsAsDirectory(files, path) ==
    \E i \in 1..Len(files) : AbsPath(files[i]) = path /\ ~files[i].is_file

\* dest_path.exists(): the destination lies in a folder of rom_root, so it
\* exists when the listing of rom_root holds it (as a file or a directory)
Exists(files, path) ==
    \E i \in 1..Len(files) : AbsPath(files[i]) = path

\* urllib.parse.quote(url, safe=":/?#[]@!$&'()*+,;="): of the characters
\* of the model only the space is percent-encoded
RECURSIVE Quote(_)
Quote(url) ==
    IF url = <<>> THEN <<>>
    ELSE (IF Head(url) = " " THEN <<"%", "2", "0">> ELSE <<Head(url)>>)
         \o Quote(Tail(url))

\* the command yielded: wget "<encoded_url>" -O "<dest_path>"
WgetCommand(url, dest_path) == <<"wget", Quote(url), "-O", dest_path>>

\* a loop over the ROMs that stops at the first ROM without image
AfterSkipBreak(roms, i) == Len(roms) + 1

\* `continue` in the loop over the ROMs of a console: on to the next ROM
AfterSkip(roms, i) == i + 1

----------------------------------------------------------------------------
(* The three calls of main, each as a function of its arguments *)

\* load_csv_data: `for csv_file in csv_files` over the files in the order
\* `order` that glob lists them in, from position i on
RECURSIVE LoadLoop(_, _, _, _, _, _)
LoadLoop(files, order, i, types, rp, im) ==
    IF i > Len(order) THEN im
    ELSE LET f == files[order[i]]
         IN LoadLoop(files, order, i + 1, types, rp,
                IF ~f.readable
                THEN FailedFile(im, order[i], f.rows, types, rp)
                ELSE IF f.rows = <<>> THEN MapPut(im, order[i], EmptyMap)
                ELSE MapPut(im, order[i], ConsoleMap(f.rows, types, rp)))

load_csv_data(files, order, thumbs, rp) ==
    LoadLoop(files, order, 1, csv_image_types(thumbs), rp, EmptyMap)

\* discover_roms: one iteration of `for rom_file in rom_files`, on rom_map
\* and the lines printed so far
DiscoverStep(st, f) ==
    LET c == MapConsole(f.folder)
        k == clean_title(f.name)
    IN IF ~f.is_file \/ EmptyName(k) THEN st
       ELSE IF HasRom(st.rom_map, c, k)
       THEN [rom_map |-> DuplicateKeepsFirst(st.rom_map, c, k, AbsPath(f)),
             printed |-> WarnDuplicate(st.printed, f.folder, c, k)]
       ELSE [rom_map |-> RomAdd(st.rom_map, c, k, AbsPath(f)),
             printed |-> IF f.folder \notin DOMAIN CONSOLE_MAPPING
                         THEN Append(st.printed, UnmappedWarning(f.folder))
                         ELSE st.printed]

RECURSIVE DiscoverLoop(_, _, _)
DiscoverLoop(files, i, st) ==
    IF i > Len(files) THEN st
    ELSE DiscoverLoop(files, i + 1, DiscoverStep(st, files[i]))

HasRoms(e) == e[2] # <<>>

\* discover_roms: the map returned and the lines printed
discover_roms(files) ==
    LET st == DiscoverLoop(files, 1, [rom_map |-> <<>>, printed |-> <<>>])
    IN [rom_map |-> SelectSeq(st.rom_map, HasRoms), printed |-> st.printed]

\* generate_wget_commands: the loop over the ROMs of a console, from
\* position j on, with the commands yielded so far
RECURSIVE RomLoop(_, _, _, _, _)
RomLoop(console_images, console_roms, j, files, cmds) ==
    IF j > Len(console_roms) THEN cmds
    ELSE LET key == console_roms[j][1]
             path == console_roms[j][2]
         IN IF key \notin DOMAIN console_images
            THEN RomLoop(console_images, console_roms,
                         AfterSkip(console_roms, j), files, cmds)
            ELSE IF Exists(files, DestPath(path, console_images[key]))
            THEN RomLoop(console_images, console_roms, j + 1, files, cmds)
            ELSE RomLoop(console_images, console_roms, j + 1, files,
                         Append(cmds,
                                WgetCommand(console_images[key],
                                            DestPath(path,
                                                     console_images[key]))))

\* the loop over the consoles, from position i on, with the commands yielded
\* and the lines printed so far
RECURSIVE ConsoleLoop(_, _, _, _, _)
ConsoleLoop(im, rm, i, files, st) ==
    IF i > Len(rm) THEN st
    ELSE IF rm[i][1] \notin DOMAIN im
    THEN ConsoleLoop(im, rm, i + 1, files,
                     [st EXCEPT !.printed = WarnMissing(@, rm[i][1], rm[i][2])])
    ELSE ConsoleLoop(im, rm, i + 1, files,
                     [st EXCEPT !.commands =
                                    RomLoop(im[rm[i][1]], rm[i][2], 1, files, @)])

\* list(generate_wget_commands(image_map, rom_map)): the commands and the
\* lines printed; files is what the ROM directory holds
generate_wget_commands(im, rm, files) ==
    ConsoleLoop(im, rm, 1, files, [commands |-> <<>>, printed |-> <<>>])

\* an exit status that reports a run without command as a failure
ReturnStatusByCommands(cmds) == IF cmds = <<>> THEN 1 ELSE 0

\* the exit status of a run whose main returns: by the `return` after "No
\* matching images found" as by the end of the body
ReturnStatus(cmds) == 0

\* the lines of main
Progress(text) == <<"progress", text>>
Summary(n) == <<"found", n>>
ErrorLine(token) == <<"error", token>>

\* every command printed as soon as it is known, the count after them
ReportCommandsThenCount(printed, cmds) ==
    (printed \o cmds) \o <<Summary(Len(cmds))>>

\* `print(f"Found {len(commands)} images to download:")`, then
\* `for command in tqdm(commands, ...): print(command)`
ReportCommands(printed, cmds) ==
    Append(printed, Summary(Len(cmds))) \o cmds

----------------------------------------------------------------------------
(* The variables of a function that is not running in a specification *)

CleanIdle ==
    /\ raw = <<>>
    /\ title = <<>>
    /\ pc = "idle"
    /\ result = <<>>

RegionIdle ==
    /\ entries = <<>>
    /\ region_priority = <<>>
    /\ region_idx = 0
    /\ rpc = "idle"
    /\ preferred = None

LoadIdle ==
    /\ csv_files = EmptyMap
    /\ thumbnail_order = None
    /\ load_region_priority = None
    /\ pending_files = {}
    /\ lpc = "idle"
    /\ image_map = EmptyMap

ValidateIdle ==
    /\ order_string = <<>>
    /\ priority_string = <<>>
    /\ validated_order = None
    /\ validated_priority = None
    /\ vpc = "idle"

MainIdle ==
    /\ mpc = "idle"
    /\ stdout = <<>>
    /\ stderr = <<>>
    /\ exit_status = None
    /\ io_log = <<>>
    /\ run = 0
    /\ first_run = None

JoinIdle ==
    /\ rom_files = <<>>
    /\ file_idx = 0
    /\ rom_map = <<>>
    /\ diagnostics = <<>>
    /\ dpc = "idle"
    /\ console_idx = 0
    /\ rom_idx = 0
    /\ commands = <<>>
    /\ gpc = "idle"

----------------------------------------------------------------------------
(* clean_title, statement by statement *)

CleanAlphabet == {"a", " ", "(", ")", ".", "/"}

InitClean ==
    /\ raw \in Strings(CleanAlphabet, 0, MaxLen)
    /\ title = raw
    /\ pc = "stem"
    /\ result = <<>>
    /\ RegionIdle /\ LoadIdle /\ JoinIdle /\ ValidateIdle /\ MainIdle

\* title = Path(title).stem
CleanStem ==
    /\ pc = "stem"
    /\ title' = PathStem(title)
    /\ pc' = "loop"
    /\ UNCHANGED <<raw, result, notClean>>

\* one iteration of `while True`, ending in the truncation
CleanStripGroup ==
    /\ pc = "loop"
    /\ RFind(title, "(") # 0
    /\ title' = StripLastGroup(title)
    /\ UNCHANGED <<raw, pc, result, notClean>>

\* `if last_open == -1: break`, then `return title.strip()`
CleanReturn ==
    /\ pc = "loop"
    /\ RFind(title, "(") = 0
    /\ result' = Strip(title)
    /\ pc' = "done"
    /\ UNCHANGED <<raw, title, notClean>>

NextClean == CleanStem \/ CleanStripGroup \/ CleanReturn

SpecClean == InitClean /\ [][NextClean]_vars

\* the inputs of the termination check: names of one path component
NameAlphabet == CleanAlphabet \ {"/"}

InitCleanName ==
    /\ raw \in Strings(NameAlphabet, 0, MaxLen)
    /\ title = raw
    /\ pc = "stem"
    /\ result = <<>>
    /\ RegionIdle /\ LoadIdle /\ JoinIdle /\ ValidateIdle /\ MainIdle

\* the function runs on one thread, which goes on to its next statement as
\* long as there is one
SpecCleanFair ==
    InitCleanName /\ [][NextClean]_vars /\ WF_vars(NextClean)

----------------------------------------------------------------------------
(* apply_region_preference, statement by statement *)

RegionAlphabet == {"U", "e", "(", ")"}

\* the titles of the other entries of a list: a title with two groups, a
\* title that holds a region outside parentheses, a title with a default
\* region
OtherTitles ==
    { <<"(", "e", ")", "(", "u", ")">>,
      <<"u", " ", "e">>,
      <<"a", " ", "(", "U", "S", "A", ")">> }

\* the URL of the entry at position i
UrlAt(i) == <<"h", "/", ToString(i)>>

\* a candidate list of n entries: the entry at position k has the title t,
\* the others have the titles os[i], and each entry has its own URL
EntryList(n, k, t, os) ==
    [i \in 1..n |-> <<IF i = k THEN t ELSE os[i], UrlAt(i)>>]

\* the region priorities: None (the default), two orders of two regions, an
\* upper-case token and a token that is in no title
RegionPriorities ==
    { None,
      << <<"u">>, <<"e">> >>,
      << <<"e">>, <<"u">> >>,
      << <<"U">> >>,
      << <<"j">> >> }

\* the candidate lists: empty, or one entry (at any position) with any
\* title over the alphabet and the others with titles of OtherTitles
InitRegion ==
    /\ \E n \in 0..MaxEntries :
          IF n = 0 THEN entries = <<>>
          ELSE \E k \in 1..n :
               \E t \in Strings(RegionAlphabet, 0, MaxTitleLen) :
               \E os \in [1..n -> OtherTitles] :
                   entries = EntryList(n, k, t, os)
    /\ region_priority \in RegionPriorities
    /\ region_idx = 0
    /\ rpc = "start"
    /\ preferred = None
    /\ CleanIdle /\ LoadIdle /\ JoinIdle /\ ValidateIdle /\ MainIdle

\* `if not entries: return None`
RegionEmpty ==
    /\ rpc = "start"
    /\ entries = <<>>
    /\ preferred' = None
    /\ rpc' = "done"
    /\ UNCHANGED <<entries, region_priority, region_idx, notRegion>>

\* `if len(entries) == 1: return entries[0][1]`
RegionSingle ==
    /\ rpc = "start"
    /\ Len(entries) = 1
    /\ preferred' = SingleEntry(entries)
    /\ rpc' = "done"
    /\ UNCHANGED <<entries, region_priority, region_idx, notRegion>>

\* `if region_priority is None: ...`, entering the outer loop
RegionEnter ==
    /\ rpc = "start"
    /\ Len(entries) > 1
    /\ region_priority' = EffectivePriority(region_priority)
    /\ region_idx' = 1
    /\ rpc' = "loop"
    /\ UNCHANGED <<entries, preferred, notRegion>>

\* one iteration of the outer loop in which some entry matches: return its URL
RegionHit ==
    /\ rpc = "loop"
    /\ region_idx <= Len(region_priority)
    /\ FirstMatch(entries, region_priority[region_idx]) # 0
    /\ preferred' =
          entries[FirstMatch(entries, region_priority[region_idx])][2]
    /\ rpc' = "done"
    /\ UNCHANGED <<entries, region_priority, region_idx, notRegion>>

\* one iteration of the outer loop in which no entry matches
RegionMiss ==
    /\ rpc = "loop"
    /\ region_idx <= Len(region_priority)
    /\ FirstMatch(entries, region_priority[region_idx]) = 0
    /\ region_idx' = region_idx + 1
    /\ UNCHANGED <<entries, region_priority, rpc, preferred, notRegion>>

\* the outer loop is exhausted: `return entries[0][1]`
RegionExhausted ==
    /\ rpc = "loop"
    /\ region_idx > Len(region_priority)
    /\ preferred' = RegionFallback(entries)
    /\ rpc' = "done"
    /\ UNCHANGED <<entries, region_priority, region_idx, notRegion>>

NextRegion ==
    \/ RegionEmpty
    \/ RegionSingle
    \/ RegionEnter
    \/ RegionHit
    \/ RegionMiss
    \/ RegionExhausted

SpecRegion == InitRegion /\ [][NextRegion]_vars

----------------------------------------------------------------------------
(* load_csv_data, file by file *)

TitleGU == <<"g", " ", "(", "u", ")">>
TitleGE == <<"g", " ", "(", "e", ")">>
TitleH == <<"h">>

\* the rows a catalog file may hold, before their URL is filled in: a title
\* of the game g in region u under either image type, with a URL or with an
\* empty URL field; a title of g in region e under either type; a row of an
\* image type that is no thumbnail type; a row of another game; a row of two
\* fields
RowShapes ==
    { <<ty, TitleGU, k>> : ty \in {"Named_Snaps", "Named_Boxarts"},
                           k \in {"url", "empty"} }
    \cup { <<ty, TitleGE, "url">> : ty \in {"Named_Snaps", "Named_Boxarts"} }
    \cup { <<"Named_Logos", TitleGU, "url">>,
           <<"Named_Snaps", TitleH, "url">>,
           <<"Named_Snaps", TitleGU, "short">> }

\* the row of a shape at position i of the file
RowAt(shape, i) ==
    CASE shape[3] = "url" -> <<shape[1], shape[2], UrlAt(i)>>
      [] shape[3] = "empty" -> <<shape[1], shape[2], <<>> >>
      [] shape[3] = "short" -> <<shape[1], shape[2]>>

ThumbnailOrders ==
    { None,
      <<"boxart", "snapshot">>,
      <<"title_screen", "boxart">> }

LoadPriorities ==
    { << <<"u">>, <<"e">> >>,
      << <<"e">>, <<"u">> >> }

\* a catalog file: whether open/read/parse succeed, and the rows parsed
\* (for a file that fails: the rows parsed before the exception)
CsvFile(readable, rows) == [readable |-> readable, rows |-> rows]

\* the catalog: the file of one console with any rows (none: an empty file),
\* and the file of another console whose parsing fails after one row
InitLoad ==
    /\ \E n \in 0..MaxRows :
       \E shapes \in [1..n -> RowShapes] :
          csv_files = [c \in {GENESIS, MAME} |->
                         IF c = GENESIS
                         THEN CsvFile(TRUE, [i \in 1..n |-> RowAt(shapes[i], i)])
                         ELSE CsvFile(FALSE,
                                  << <<"Named_Snaps", TitleH, UrlAt(1)>> >>)]
    /\ thumbnail_order \in ThumbnailOrders
    /\ load_region_priority \in LoadPriorities
    /\ pending_files = DOMAIN csv_files
    /\ lpc = "files"
    /\ image_map = EmptyMap
    /\ CleanIdle /\ RegionIdle /\ JoinIdle /\ ValidateIdle /\ MainIdle

\* one iteration of `for csv_file in csv_files` (glob gives the files in any
\* order) on a file that raises: `except Exception: continue`
LoadSkipFile ==
    /\ lpc = "files"
    /\ \E c \in pending_files :
          /\ ~csv_files[c].readable
          /\ image_map' =
                FailedFile(image_map, c, csv_files[c].rows,
                           csv_image_types(thumbnail_order),
                           load_region_priority)
          /\ pending_files' = pending_files \ {c}
    /\ UNCHANGED <<csv_files, thumbnail_order, load_region_priority, lpc,
                   notLoad>>

\* one iteration on a file without content: `image_map[console_name] = {}`
LoadEmptyFile ==
    /\ lpc = "files"
    /\ \E c \in pending_files :
          /\ csv_files[c].readable
          /\ csv_files[c].rows = <<>>
          /\ image_map' = MapPut(image_map, c, EmptyMap)
          /\ pending_files' = pending_files \ {c}
    /\ UNCHANGED <<csv_files, thumbnail_order, load_region_priority, lpc,
                   notLoad>>

\* one iteration on a file with rows: group them, select one URL per clean
\* name, `image_map[console_name] = console_map`
LoadFile ==
    /\ lpc = "files"
    /\ \E c \in pending_files :
          /\ csv_files[c].readable
          /\ csv_files[c].rows # <<>>
          /\ image_map' =
                MapPut(image_map, c,
                       ConsoleMap(csv_files[c].rows,
                                  csv_image_types(thumbnail_order),
                                  load_region_priority))
          /\ pending_files' = pending_files \ {c}
    /\ UNCHANGED <<csv_files, thumbnail_order, load_region_priority, lpc,
                   notLoad>>

\* `return image_map`
LoadReturn ==
    /\ lpc = "files"
    /\ pending_files = {}
    /\ lpc' = "done"
    /\ UNCHANGED <<csv_files, thumbnail_order, load_region_priority,
                   pending_files, image_map, notLoad>>

NextLoad == LoadSkipFile \/ LoadEmptyFile \/ LoadFile \/ LoadReturn

SpecLoad == InitLoad /\ [][NextLoad]_vars

----------------------------------------------------------------------------
(* discover_roms, file by file, then generate_wget_commands on its result *)

\* the entries rom_root may hold, one level below its folders
FilePool ==
    { DirEntry("genesis", <<"g", ".", "b">>, TRUE),
      DirEntry("genesis", <<"g", " ", "(", "u", ")", ".", "b">>, TRUE),
      DirEntry("megadrive", <<"g", ".", "b">>, TRUE),
      DirEntry("custom", <<"g", ".", "b">>, TRUE),
      DirEntry("custom", <<"g", " ", "(", "u", ")", ".", "b">>, TRUE),
      DirEntry("genesis", <<"h", ".", "b">>, TRUE),
      DirEntry("genesis", <<"k">>, TRUE),
      DirEntry("genesis", <<"(", "x", ")", ".", "b">>, TRUE),
      DirEntry("genesis", <<"g", ".", "j">>, FALSE),
      DirEntry("genesis", <<"g", ".", "p", "n", "g">>, TRUE),
      DirEntry("mame", <<"g", ".", "b">>, TRUE) }

UrlNoExt == <<"s", ":", "/", "/", "h", "/", "g">>
UrlQuery ==
    <<"s", ":", "/", "/", "h", "/", "a", " ", "b", ".", "j", "?", "v", ".", "x">>
UrlK == <<"s", ":", "/", "/", "h", "/", "k", ".", "j">>
UrlMame == <<"s", ":", "/", "/", "h", "/", "g", ".", "j">>

\* the image maps load_csv_data may have returned
ImageMaps ==
    { EmptyMap,
      (GENESIS :> (<<"g">> :> UrlNoExt)) @@ (MAME :> EmptyMap),
      (GENESIS :> (<<"g">> :> UrlQuery @@ <<"k">> :> UrlK @@ <<"x">> :> UrlK))
         @@ (MAME :> (<<"g">> :> UrlMame))
         @@ ("custom" :> (<<"g">> :> UrlMame)),
      (MAME :> (<<"x">> :> UrlK)) }

InitJoin ==
    /\ \E n \in 0..MaxFiles :
       \E fs \in [1..n -> FilePool] :
          /\ \A i, j \in 1..n : fs[i] = fs[j] => i = j
          /\ rom_files = fs
    /\ image_map \in ImageMaps
    /\ file_idx = 1
    /\ rom_map = <<>>
    /\ diagnostics = <<>>
    /\ dpc = "files"
    /\ console_idx = 0
    /\ rom_idx = 0
    /\ commands = <<>>
    /\ gpc = "idle"
    /\ csv_files = EmptyMap
    /\ thumbnail_order = None
    /\ load_region_priority = None
    /\ pending_files = {}
    /\ lpc = "idle"
    /\ CleanIdle /\ RegionIdle /\ ValidateIdle /\ MainIdle

\* the file the loop of discover_roms is at
rom_file == rom_files[file_idx]
console_name == MapConsole(rom_file.folder)
clean_name == clean_title(rom_file.name)

DiscoverAt == dpc = "files" /\ file_idx <= Len(rom_files)

\* `if not rom_file.is_file(): continue`
DiscoverSkipNonFile ==
    /\ DiscoverAt
    /\ ~rom_file.is_file
    /\ file_idx' = file_idx + 1
    /\ UNCHANGED <<rom_files, rom_map, diagnostics, dpc, generateVars,
                   image_map, notJoin>>

\* `if not clean_name: continue`
DiscoverSkipEmptyName ==
    /\ DiscoverAt
    /\ rom_file.is_file
    /\ EmptyName(clean_name)
    /\ file_idx' = file_idx + 1
    /\ UNCHANGED <<rom_files, rom_map, diagnostics, dpc, generateVars,
                   image_map, notJoin>>

\* `if clean_name in rom_map[console_name]`: the warning, and `continue`
DiscoverDuplicate ==
    /\ DiscoverAt
    /\ rom_file.is_file
    /\ ~EmptyName(clean_name)
    /\ HasRom(rom_map, console_name, clean_name)
    /\ diagnostics' =
          WarnDuplicate(diagnostics, rom_file.folder, console_name, clean_name)
    /\ rom_map' =
          DuplicateKeepsFirst(rom_map, console_name, clean_name,
                              AbsPath(rom_file))
    /\ file_idx' = file_idx + 1
    /\ UNCHANGED <<rom_files, dpc, generateVars, image_map, notJoin>>

\* a new clean name: the warning for a folder without mapping, and the store
DiscoverKeep ==
    /\ DiscoverAt
    /\ rom_file.is_file
    /\ ~EmptyName(clean_name)
    /\ ~HasRom(rom_map, console_name, clean_name)
    /\ diagnostics' =
          IF rom_file.folder \notin DOMAIN CONSOLE_MAPPING
          THEN Append(diagnostics, UnmappedWarning(rom_file.folder))
          ELSE diagnostics
    /\ rom_map' = RomAdd(rom_map, console_name, clean_name, AbsPath(rom_file))
    /\ file_idx' = file_idx + 1
    /\ UNCHANGED <<rom_files, dpc, generateVars, image_map, notJoin>>

\* the return: the consoles that have at least one ROM
DiscoverReturn ==
    /\ dpc = "files"
    /\ file_idx > Len(rom_files)
    /\ rom_map' = SelectSeq(rom_map, LAMBDA e : e[2] # <<>>)
    /\ dpc' = "done"
    /\ UNCHANGED <<rom_files, file_idx, diagnostics, generateVars,
                   image_map, notJoin>>

\* main: generate_wget_commands(image_map, rom_map), consumed to its end
GenCall ==
    /\ dpc = "done"
    /\ gpc = "idle"
    /\ gpc' = "consoles"
    /\ console_idx' = 1
    /\ UNCHANGED <<discoverVars, rom_idx, commands, image_map, notJoin>>

\* the console and the ROM the loops of generate_wget_commands are at
console == rom_map[console_idx][1]
roms == rom_map[console_idx][2]
rom_key == roms[rom_idx][1]
rom_path == roms[rom_idx][2]
image_url == image_map[console][rom_key]

GenAtConsole == gpc = "consoles" /\ console_idx <= Len(rom_map)
GenAtRom == gpc = "roms" /\ rom_idx <= Len(roms)

\* `if console not in image_map`: the warning, and `continue`
GenMissingConsole ==
    /\ GenAtConsole
    /\ console \notin DOMAIN image_map
    /\ diagnostics' = WarnMissing(diagnostics, console, roms)
    /\ console_idx' = console_idx + 1
    /\ UNCHANGED <<rom_files, file_idx, rom_map, dpc, rom_idx, commands, gpc,
                   image_map, notJoin>>

\* console_images = image_map[console], and into the loop over its ROMs
GenEnterConsole ==
    /\ GenAtConsole
    /\ console \in DOMAIN image_map
    /\ rom_idx' = 1
    /\ gpc' = "roms"
    /\ UNCHANGED <<discoverVars, console_idx, commands, image_map, notJoin>>

\* `if clean_name not in console_images: continue`
GenSkipNoImage ==
    /\ GenAtRom
    /\ rom_key \notin DOMAIN image_map[console]
    /\ rom_idx' = AfterSkip(roms, rom_idx)
    /\ UNCHANGED <<discoverVars, console_idx, commands, gpc, image_map,
                   notJoin>>

\* `if dest_path.exists(): continue`
GenSkipExists ==
    /\ GenAtRom
    /\ rom_key \in DOMAIN image_map[console]
    /\ Exists(rom_files, DestPath(rom_path, image_url))
    /\ rom_idx' = rom_idx + 1
    /\ UNCHANGED <<discoverVars, console_idx, commands, gpc, image_map,
                   notJoin>>

\* the yield of one command
GenYield ==
    /\ GenAtRom
    /\ rom_key \in DOMAIN image_map[console]
    /\ ~Exists(rom_files, DestPath(rom_path, image_url))
    /\ commands' =
          Append(commands,
                 WgetCommand(image_url, DestPath(rom_path, image_url)))
    /\ rom_idx' = rom_idx + 1
    /\ UNCHANGED <<discoverVars, console_idx, gpc, image_map, notJoin>>

\* the end of the loop over the ROMs of a console
GenNextConsole ==
    /\ gpc = "roms"
    /\ rom_idx > Len(roms)
    /\ console_idx' = console_idx + 1
    /\ gpc' = "consoles"
    /\ UNCHANGED <<discoverVars, rom_idx, commands, image_map, notJoin>>

\* the end of the loop over the consoles
GenReturn ==
    /\ gpc = "consoles"
    /\ console_idx > Len(rom_map)
    /\ gpc' = "done"
    /\ UNCHANGED <<discoverVars, console_idx, rom_idx, commands, image_map,
                   notJoin>>

NextJoin ==
    \/ DiscoverSkipNonFile
    \/ DiscoverSkipEmptyName
    \/ DiscoverDuplicate
    \/ DiscoverKeep
    \/ DiscoverReturn
    \/ GenCall
    \/ GenMissingConsole
    \/ GenEnterConsole
    \/ GenSkipNoImage
    \/ GenSkipExists
    \/ GenYield
    \/ GenNextConsole
    \/ GenReturn

SpecJoin == InitJoin /\ [][NextJoin]_vars

----------------------------------------------------------------------------
(* validate_thumbnail_order and validate_region_priority, each on an argument
   made of up to MaxPieces pieces *)

\* the pieces of a --thumbnail-order argument, and those of a
\* --region-priority argument: tokens, the comma and the blank
ThumbnailPieces ==
    <<Boxart, Snapshot, <<",">>, <<" ">>, <<"x">>, TitleScreen>>
RegionPieces ==
    << <<"u", "s", "a">>, <<"U", "S", "A">>, <<",">>, <<" ">>, <<"e">>,
       <<"E">> >>

\* the string made of the pieces of the pool at the positions ps
RECURSIVE Concat(_, _)
Concat(pool, ps) ==
    IF ps = <<>> THEN <<>> ELSE pool[Head(ps)] \o Concat(pool, Tail(ps))

InitValidate ==
    /\ \E n \in 0..MaxPieces :
       \E ps \in [1..n -> 1..6] :
          /\ order_string = Concat(ThumbnailPieces, ps)
          /\ priority_string = Concat(RegionPieces, ps)
    /\ validated_order = None
    /\ validated_priority = None
    /\ vpc = "thumbnail_order"
    /\ CleanIdle /\ RegionIdle /\ LoadIdle /\ JoinIdle /\ MainIdle

\* validate_thumbnail_order(order_string) returns
ValidateThumbnailReturn ==
    /\ vpc = "thumbnail_order"
    /\ ~validate_thumbnail_order(order_string).raised
    /\ validated_order' = validate_thumbnail_order(order_string)
    /\ vpc' = "region_priority"
    /\ UNCHANGED <<order_string, priority_string, validated_priority,
                   notValidate>>

\* validate_thumbnail_order(order_string) raises ValueError
ValidateThumbnailRaise ==
    /\ vpc = "thumbnail_order"
    /\ validate_thumbnail_order(order_string).raised
    /\ validated_order' = validate_thumbnail_order(order_string)
    /\ vpc' = "region_priority"
    /\ UNCHANGED <<order_string, priority_string, validated_priority,
                   notValidate>>

\* validate_region_priority(priority_string)
ValidateRegion ==
    /\ vpc = "region_priority"
    /\ validated_priority' = validate_region_priority(priority_string)
    /\ vpc' = "done"
    /\ UNCHANGED <<order_string, priority_string, validated_order,
                   notValidate>>

NextValidate ==
    ValidateThumbnailReturn \/ ValidateThumbnailRaise \/ ValidateRegion

SpecValidate == InitValidate /\ [][NextValidate]_vars

----------------------------------------------------------------------------
(* main, run twice on the same arguments, catalog and ROM directory *)

\* the values of --thumbnail-order and of --region-priority
OrderArguments ==
    { <<>>,
      Boxart,
      Boxart \o <<",">> \o Snapshot \o <<",">> \o Boxart,
      <<"x">>,
      Boxart \o <<",", " ", "x">> }
PriorityArguments == { <<"e", ",", "u">>, <<" ">> }

\* the catalog of data_dir: the files of two consoles, the second one with
\* rows or unreadable
MainCatalogs ==
    { [c \in {GENESIS, MAME} |->
          IF c = GENESIS
          THEN CsvFile(TRUE,
                       << <<"Named_Snaps", TitleGU, UrlAt(1)>>,
                          <<"Named_Snaps", TitleGE, UrlAt(2)>>,
                          <<"Named_Boxarts", TitleH, UrlAt(3)>> >>)
          ELSE CsvFile(readable,
                       << <<"Named_Boxarts", <<"g">>, UrlAt(4)>> >>)] :
        readable \in BOOLEAN }

\* what rom_root may hold
MainFilePool ==
    { DirEntry("genesis", <<"g", ".", "b">>, TRUE),
      DirEntry("genesis", <<"g", " ", "(", "u", ")", ".", "b">>, TRUE),
      DirEntry("genesis", <<"g", ".", "p", "n", "g">>, TRUE),
      DirEntry("custom", <<"g", ".", "b">>, TRUE),
      DirEntry("mame", <<"g", ".", "b">>, TRUE) }

\* the orders glob may list the files of a directory in
Orders(S) ==
    {sq \in [1..Cardinality(S) -> S] :
        \A i, j \in 1..Cardinality(S) : sq[i] = sq[j] => i = j}

InitMain ==
    /\ order_string \in OrderArguments
    /\ priority_string \in PriorityArguments
    /\ csv_files \in MainCatalogs
    /\ \E n \in 0..MaxFiles :
       \E fs \in [1..n -> MainFilePool] :
          /\ \A i, j \in 1..n : fs[i] = fs[j] => i = j
          /\ rom_files = fs
    /\ validated_order = None
    /\ validated_priority = None
    /\ vpc = "idle"
    /\ thumbnail_order = None
    /\ load_region_priority = None
    /\ pending_files = {}
    /\ lpc = "idle"
    /\ image_map = EmptyMap
    /\ file_idx = 0
    /\ rom_map = <<>>
    /\ diagnostics = <<>>
    /\ dpc = "idle"
    /\ console_idx = 0
    /\ rom_idx = 0
    /\ commands = <<>>
    /\ gpc = "idle"
    /\ mpc = "validate"
    /\ stdout = <<>>
    /\ stderr = <<>>
    /\ exit_status = None
    /\ io_log = <<>>
    /\ run = 1
    /\ first_run = None
    /\ CleanIdle /\ RegionIdle

\* what no step of main changes: the arguments, the catalog, the ROM
\* directory, and the variables of the functions run step by step elsewhere
mainFrame ==
    <<cleanVars, regionVars, order_string, priority_string, csv_files,
      rom_files, validated_order, validated_priority, vpc, pending_files,
      lpc, file_idx, diagnostics, dpc, console_idx, rom_idx, gpc>>

\* validate_thumbnail_order raises: `except ValueError`, the message on
\* sys.stderr, sys.exit(1)
MainInvalidOrder ==
    /\ mpc = "validate"
    /\ validate_thumbnail_order(order_string).raised
    /\ stderr' =
          Append(stderr, ErrorLine(validate_thumbnail_order(order_string).value))
    /\ exit_status' = 1
    /\ mpc' = "exited"
    /\ UNCHANGED <<mainFrame, thumbnail_order, load_region_priority,
                   image_map, rom_map, commands, stdout, io_log, run,
                   first_run>>

\* both validations return
MainValidated ==
    /\ mpc = "validate"
    /\ ~validate_thumbnail_order(order_string).raised
    /\ thumbnail_order' = validate_thumbnail_order(order_string).value
    /\ load_region_priority' = validate_region_priority(priority_string)
    /\ mpc' = "load"
    /\ UNCHANGED <<mainFrame, image_map, rom_map, commands, stdout, stderr,
                   exit_status, io_log, run, first_run>>

\* print("Loading CSV data..."), load_csv_data: the files are read in the
\* order glob lists them in
MainLoad ==
    /\ mpc = "load"
    /\ \E order \in Orders(DOMAIN csv_files) :
          /\ image_map' =
                load_csv_data(csv_files, order, thumbnail_order,
                              load_region_priority)
          /\ io_log' =
                io_log \o [i \in 1..Len(order) |-> <<"read", order[i]>>]
    /\ stdout' = Append(stdout, Progress("Loading CSV data..."))
    /\ mpc' = "discover"
    /\ UNCHANGED <<mainFrame, thumbnail_order, load_region_priority, rom_map,
                   commands, stderr, exit_status, run, first_run>>

\* print("Discovering ROM files..."), discover_roms and its warnings
MainDiscover ==
    /\ mpc = "discover"
    /\ rom_map' = discover_roms(rom_files).rom_map
    /\ stdout' =
          Append(stdout, Progress("Discovering ROM files..."))
              \o discover_roms(rom_files).printed
    /\ io_log' = Append(io_log, <<"list", "rom_root">>)
    /\ mpc' = "generate"
    /\ UNCHANGED <<mainFrame, thumbnail_order, load_region_priority,
                   image_map, commands, stderr, exit_status, run,
                   first_run>>

\* print("Generating wget commands..."), the generator consumed to its end
\* and its warnings
MainGenerate ==
    /\ mpc = "generate"
    /\ commands' = generate_wget_commands(image_map, rom_map, rom_files).commands
    /\ stdout' =
          Append(stdout, Progress("Generating wget commands..."))
              \o generate_wget_commands(image_map, rom_map, rom_files).printed
    /\ mpc' = "report"
    /\ UNCHANGED <<mainFrame, thumbnail_order, load_region_priority,
                   image_map, rom_map, stderr, exit_status, io_log, run,
                   first_run>>

\* `if not commands`: the message, and `return`
MainNoCommands ==
    /\ mpc = "report"
    /\ commands = <<>>
    /\ stdout' = Append(stdout, Progress("No matching images found for ROMs."))
    /\ exit_status' = ReturnStatus(commands)
    /\ mpc' = "exited"
    /\ UNCHANGED <<mainFrame, thumbnail_order, load_region_priority,
                   image_map, rom_map, commands, stderr, io_log, run,
                   first_run>>

\* the count, then print(command) for every command
MainPrintCommands ==
    /\ mpc = "report"
    /\ commands # <<>>
    /\ stdout' = ReportCommands(stdout, commands)
    /\ exit_status' = ReturnStatus(commands)
    /\ mpc' = "exited"
    /\ UNCHANGED <<mainFrame, thumbnail_order, load_region_priority,
                   image_map, rom_map, commands, stderr, io_log, run,
                   first_run>>

\* the program is started again on the same arguments, catalog and ROM
\* directory
MainRunAgain ==
    /\ mpc = "exited"
    /\ run = 1
    /\ run' = 2
    /\ first_run' = [stdout |-> stdout, io_log |-> io_log]
    /\ mpc' = "validate"
    /\ stdout' = <<>>
    /\ stderr' = <<>>
    /\ exit_status' = None
    /\ io_log' = <<>>
    /\ thumbnail_order' = None
    /\ load_region_priority' = None
    /\ image_map' = EmptyMap
    /\ rom_map' = <<>>
    /\ commands' = <<>>
    /\ UNCHANGED mainFrame

NextMain ==
    \/ MainInvalidOrder
    \/ MainValidated
    \/ MainLoad
    \/ MainDiscover
    \/ MainGenerate
    \/ MainNoCommands
    \/ MainPrintCommands
    \/ MainRunAgain

SpecMain == InitMain /\ [][NextMain]_vars

----------------------------------------------------------------------------
(* Two runs of discover_roms and generate_wget_commands, the commands of the
   first run executed in between *)

\* what no step of the two runs changes
rerunFrame ==
    <<cleanVars, regionVars, loadVars, file_idx, diagnostics, dpc,
      console_idx, rom_idx, gpc, validateVars, stdout, stderr, exit_status,
      io_log>>

\* the listing with a new regular file at position p + 1: glob lists the
\* entries of the folders in the order of the file system
Listed(files, p, path) ==
    SubSeq(files, 1, p)
        \o <<DirEntry(path[1], path[2], TRUE)>>
        \o SubSeq(files, p + 1, Len(files))

\* the listing holds an entry of that path
InListing(files, path) == \E i \in 1..Len(files) : AbsPath(files[i]) = path

\* what rom_root may hold before the first run: ROMs of one key in two
\* folders of one system and in another system, a ROM without extension,
\* an image and a directory that are destinations of theirs
RerunFilePool ==
    { DirEntry("genesis", <<"g", ".", "b">>, TRUE),
      DirEntry("genesis", <<"g", " ", "(", "u", ")", ".", "b">>, TRUE),
      DirEntry("megadrive", <<"g", ".", "b">>, TRUE),
      DirEntry("genesis", <<"g", ".", "p", "n", "g">>, TRUE),
      DirEntry("genesis", <<"g", ".", "j">>, FALSE),
      DirEntry("genesis", <<"k">>, TRUE),
      DirEntry("mame", <<"g", ".", "b">>, TRUE) }

InitRerun ==
    /\ \E n \in 0..MaxFiles :
       \E fs \in [1..n -> RerunFilePool] :
          /\ \A i, j \in 1..n : fs[i] = fs[j] => i = j
          /\ rom_files = fs
    /\ image_map \in ImageMaps
    /\ csv_files = EmptyMap
    /\ thumbnail_order = None
    /\ load_region_priority = None
    /\ pending_files = {}
    /\ lpc = "idle"
    /\ file_idx = 0
    /\ rom_map = <<>>
    /\ diagnostics = <<>>
    /\ dpc = "idle"
    /\ console_idx = 0
    /\ rom_idx = 0
    /\ commands = <<>>
    /\ gpc = "idle"
    /\ mpc = "first"
    /\ stdout = <<>>
    /\ stderr = <<>>
    /\ exit_status = None
    /\ io_log = <<>>
    /\ run = 1
    /\ first_run = [commands |-> <<>>, rom_files |-> <<>>]
    /\ CleanIdle /\ RegionIdle /\ ValidateIdle

\* the first run: rom_map = discover_roms(rom_root), then
\* commands = list(generate_wget_commands(image_map, rom_map))
RerunFirst ==
    /\ mpc = "first"
    /\ rom_map' = discover_roms(rom_files).rom_map
    /\ commands' =
          generate_wget_commands(image_map, rom_map', rom_files).commands
    /\ first_run' = [commands |-> commands', rom_files |-> rom_files]
    /\ mpc' = "execute"
    /\ UNCHANGED <<rerunFrame, rom_files, run>>

\* the next command of the first run is executed: wget writes the image to
\* the destination, a new file of the ROM folder that the next listing
\* holds at any position
RerunDownload ==
    /\ mpc = "execute"
    /\ commands # <<>>
    /\ \E p \in 0..Len(rom_files) :
          rom_files' =
             IF InListing(rom_files, Head(commands)[4]) THEN rom_files
             ELSE Listed(rom_files, p, Head(commands)[4])
    /\ commands' = Tail(commands)
    /\ UNCHANGED <<rerunFrame, rom_map, mpc, run, first_run>>

\* every command is executed: the second run, on the same image map
RerunSecond ==
    /\ mpc = "execute"
    /\ commands = <<>>
    /\ run' = 2
    /\ rom_map' = discover_roms(rom_files).rom_map
    /\ commands' =
          generate_wget_commands(image_map, rom_map', rom_files).commands
    /\ mpc' = "done"
    /\ UNCHANGED <<rerunFrame, rom_files, first_run>>

NextRerun == RerunFirst \/ RerunDownload \/ RerunSecond

SpecRerun == InitRerun /\ [][NextRerun]_vars

----------------------------------------------------------------------------
(* match_screenshots.py: apply_region_preference, and the lists both
   selectors are compared on *)

\* `for title, url in entries: if token in title.lower(): return url` for
\* one token: the position of the first entry whose lower-cased title holds
\* the token, 0 when there is none
LegacyFirstMatch(es, token) ==
    IF \E i \in 1..Len(es) : Contains(Lower(es[i][1]), token)
    THEN CHOOSE i \in 1..Len(es) :
            /\ Contains(Lower(es[i][1]), token)
            /\ \A j \in 1..(i - 1) : ~Contains(Lower(es[j][1]), token)
    ELSE 0

\* the three loops, 'usa', 'europe', 'world', then `return entries[0][1]`
RECURSIVE LegacyLoops(_, _)
LegacyLoops(es, r) ==
    IF r > Len(DEFAULT_REGION_ORDER) THEN es[1][2]
    ELSE IF LegacyFirstMatch(es, DEFAULT_REGION_ORDER[r]) # 0
    THEN es[LegacyFirstMatch(es, DEFAULT_REGION_ORDER[r])][2]
    ELSE LegacyLoops(es, r + 1)

\* match_screenshots.apply_region_preference(entries)
legacy_apply_region_preference(es) ==
    IF es = <<>> THEN None
    ELSE IF Len(es) = 1 THEN es[1][2]
    ELSE LegacyLoops(es, 1)

\* what the titles of the compared lists are made of
TitlePieces ==
    << <<"U", "s", "a">>, <<"w", "o", "r", "l", "d">>, <<"(">>, <<")">>,
       <<"g">> >>

\* the titles of the other entries of a list: a European release, a title
\* without region, a title with two regions in two groups
LegacyOtherTitles ==
    { <<"g", " ", "(", "E", "u", "r", "o", "p", "e", ")">>,
      <<"g">>,
      <<"g", " ", "(", "w", "o", "r", "l", "d", ")", " ", "(", "U", "s", "a", ")">> }

\* cli.apply_region_preference is called without region priority on a list
\* that is empty, or has one entry (at any position) whose title is made of
\* up to MaxTitleLen pieces and others with titles of LegacyOtherTitles
InitLegacy ==
    /\ \E n \in 0..MaxEntries :
          IF n = 0 THEN entries = <<>>
          ELSE \E k \in 1..n :
               \E m \in 0..MaxTitleLen :
               \E ps \in [1..m -> 1..Len(TitlePieces)] :
               \E os \in [1..n -> LegacyOtherTitles] :
                   entries = EntryList(n, k, Concat(TitlePieces, ps), os)
    /\ region_priority = None
    /\ region_idx = 0
    /\ rpc = "start"
    /\ preferred = None
    /\ CleanIdle /\ LoadIdle /\ JoinIdle /\ ValidateIdle /\ MainIdle

SpecLegacy == InitLegacy /\ [][NextRegion]_vars

----------------------------------------------------------------------------
(* Claims about clean_title, checked under SpecClean *)

\* the extensions appended to a title: non-empty, without ".", "/", "(", ")"
Exts == Strings({"a", " "}, 1, MaxExt)

\* the annotations appended to a title: no parentheses
Annots == Strings({"a", " ", "."}, 0, MaxExt)

\* a game title as a catalog row or a ROM file name holds it: it begins with
\* a letter and is not a path with directories
IsGameTitle(s) == s # <<>> /\ Head(s) = "a" /\ Find(s, "/") = 0

Annotated(s, a) == s \o <<" ", "(">> \o a \o <<")">>

\* C1: extension invariance of the join key. Once clean_title(raw) has
\* returned, cleaning raw + "." + e gives the same clean name, for every
\* extension e (stated for game titles; the code breaks it for a title that
\* holds a ".").
C1_ExtensionInvariance ==
    (pc = "done" /\ IsGameTitle(raw)) =>
        \A e \in Exts : clean_title(raw \o <<".">> \o e) = result

\* the clean name has no extension left: it is not "." and its last ".", if
\* any, is its first or its last character
NoExtensionLeft(s) ==
    /\ s # <<".">>
    /\ RFind(s, ".") \in {0, 1, Len(s)}

\* C8 as claimed: clean_title is idempotent, clean_title(clean_title(x)) =
\* clean_title(x) (stated for game titles x).
C8_Idempotent ==
    (pc = "done" /\ IsGameTitle(raw)) => clean_title(result) = result

\* C8 as amended: clean_title is idempotent on every string whose clean name
\* has no extension left.
C8_IdempotentWithoutExtension ==
    (pc = "done" /\ NoExtensionLeft(result)) => clean_title(result) = result

\* a title with an extension and an annotation has been cleaned to a
\* non-empty name without extension
C8_Witness ==
    /\ pc = "done"
    /\ Find(raw, "(") # 0
    /\ Find(raw, ".") # 0
    /\ result # <<>>
    /\ result # raw
    /\ NoExtensionLeft(result)

\* C9: annotation invariance of the join key. Once clean_title(raw) has
\* returned, cleaning raw + " (" + a + ")" gives the same clean name for
\* every annotation a without parentheses, and so does appending two such
\* annotations (stated for game titles).
C9_AnnotationInvariance ==
    (pc = "done" /\ IsGameTitle(raw)) =>
        /\ \A a \in Annots : clean_title(Annotated(raw, a)) = result
        /\ \A a, b \in Annots :
              clean_title(Annotated(Annotated(raw, a), b)) = result

----------------------------------------------------------------------------
(* Claims about apply_region_preference, checked under SpecRegion *)

\* the call has returned on a list of two or more entries
RegionDoneMany == rpc = "done" /\ Len(entries) >= 2

\* the positions of region_priority whose token matches some entry
MatchedTiers ==
    {r \in 1..Len(region_priority) :
        \E i \in 1..Len(entries) :
            RegionMatches(region_priority[r], entries[i][1])}

Min(S) == CHOOSE x \in S : \A y \in S : x <= y

\* the entries the token at position r matches
MatchedBy(r) ==
    {i \in 1..Len(entries) : RegionMatches(region_priority[r], entries[i][1])}

\* C2: for a list of two or more entries the URL returned is that of the
\* first entry, in list order, matched by the earliest token of
\* region_priority that matches any entry, and the outer loop has stopped at
\* that token; when no token matches any entry it is the URL of the first
\* entry.
C2_EarliestTierFirstEntry ==
    RegionDoneMany =>
        IF MatchedTiers = {}
        THEN preferred = entries[1][2]
        ELSE /\ region_idx = Min(MatchedTiers)
             /\ preferred = entries[Min(MatchedBy(Min(MatchedTiers)))][2]

\* the second entry wins with the first token although the first entry
\* matches the second token
C2_Witness ==
    /\ RegionDoneMany
    /\ Len(region_priority) >= 2
    /\ region_idx = 1
    /\ preferred = entries[2][2]
    /\ RegionMatches(region_priority[2], entries[1][1])
    /\ ~RegionMatches(region_priority[1], entries[1][1])

\* the token occurs, case-insensitively, in the contents of a parenthesised
\* group of the title: between a "(" and the next ")"
InGroup(token, t) ==
    \E i, j \in 1..Len(t) :
        /\ i < j
        /\ t[i] = "("
        /\ t[j] = ")"
        /\ \A k \in (i+1)..(j-1) : t[k] # ")"
        /\ Contains(Lower(SubSeq(t, i+1, j-1)), Lower(token))

\* the returned URL was found by a region token, not by the fallback
RegionHitDone == RegionDoneMany /\ region_idx <= Len(region_priority)

\* the position of the entry whose URL was returned
PreferredEntry == CHOOSE i \in 1..Len(entries) : entries[i][2] = preferred

\* C3: a region token selects an entry only when it occurs, case-
\* insensitively, inside the contents of a parenthesised group of the
\* entry's title. The call returns through a region token exactly when some
\* token occurs in some group of some title, and the entry it returns then
\* holds the token in one of its groups; an occurrence outside every group
\* selects nothing.
C3_MatchOnlyInsideGroups ==
    RegionDoneMany =>
        /\ (region_idx <= Len(region_priority)) <=>
               \E r \in 1..Len(region_priority), i \in 1..Len(entries) :
                   InGroup(region_priority[r], entries[i][1])
        /\ (region_idx <= Len(region_priority)) =>
               InGroup(region_priority[region_idx],
                       entries[PreferredEntry][1])

\* the second entry is selected through its second group, although the
\* first entry holds the token outside parentheses and the first group of
\* the second entry does not hold it
C3_Witness ==
    /\ RegionHitDone
    /\ preferred = entries[2][2]
    /\ Contains(Lower(entries[1][1]), Lower(region_priority[region_idx]))
    /\ Len(paren_matches(entries[2][1])) >= 2
    /\ ~Contains(Lower(paren_matches(entries[2][1])[1]),
                 Lower(region_priority[region_idx]))

\* C10: for a list of exactly one entry the URL of that entry is returned,
\* whatever its title and whatever region_priority is.
C10_SingleEntryUnconditional ==
    (rpc = "done" /\ Len(entries) = 1) => preferred = entries[1][2]

\* a single entry whose title has no parentheses and holds no token of the
\* priority list has been returned
C10_Witness ==
    /\ rpc = "done"
    /\ Len(entries) = 1
    /\ entries[1][1] # <<>>
    /\ Find(entries[1][1], "(") = 0
    /\ region_priority # None
    /\ \A r \in 1..Len(region_priority) :
           ~RegionMatches(region_priority[r], entries[1][1])
    /\ preferred = entries[1][2]

----------------------------------------------------------------------------
(* Claims about load_csv_data, checked under SpecLoad *)

\* the requested image types, in priority order
LoadedTypes == csv_image_types(thumbnail_order)

\* the candidate list of clean name k under the type at position i
Candidates(c, k, i) ==
    TypeEntries(csv_files[c].rows, LoadedTypes, k, LoadedTypes[i])

\* the region selector's result on that list
RegionResult(c, k, i) ==
    apply_region_preference(Candidates(c, k, i), load_region_priority)

\* the positions of the types that have a candidate for k
TypesWithCandidates(c, k) ==
    {i \in 1..Len(LoadedTypes) : Candidates(c, k, i) # <<>>}

\* the positions of the types whose candidates select a non-empty URL
TypesWithUrl(c, k) ==
    {i \in TypesWithCandidates(c, k) : RegionResult(c, k, i) # <<>>}

\* C4 as claimed: the URL stored for (system, clean key) is the region
\* selector's result on the candidate list of the first type of
\* thumbnail_order that has a candidate for the key.
C4_FirstTypeWithCandidates ==
    \A c \in DOMAIN image_map : \A k \in DOMAIN image_map[c] :
        /\ TypesWithCandidates(c, k) # {}
        /\ image_map[c][k] = RegionResult(c, k, Min(TypesWithCandidates(c, k)))

\* C4 as amended: the URL stored for (system, clean key) is the region
\* selector's result on the candidate list of the first type of
\* thumbnail_order whose candidates select a non-empty URL: a later type is
\* used only when every earlier type has no candidate for the key or selects
\* an empty URL, and a key is stored exactly when some requested type
\* selects a non-empty URL for it.
C4_FirstTypeWithUrl ==
    \A c \in DOMAIN image_map :
        /\ DOMAIN image_map[c] =
              {k \in CleanNames(csv_files[c].rows, LoadedTypes) :
                  TypesWithUrl(c, k) # {}}
        /\ \A k \in DOMAIN image_map[c] :
              image_map[c][k] = RegionResult(c, k, Min(TypesWithUrl(c, k)))

\* the key g is stored with the URL of the second requested type that has
\* candidates, the first one having selected an empty URL
C4_Witness ==
    /\ lpc = "done"
    /\ GENESIS \in DOMAIN image_map
    /\ <<"g">> \in DOMAIN image_map[GENESIS]
    /\ Cardinality(TypesWithCandidates(GENESIS, <<"g">>)) = 2
    /\ Min(TypesWithUrl(GENESIS, <<"g">>)) #
          Min(TypesWithCandidates(GENESIS, <<"g">>))

\* the labels of the thumbnail types of thumbnail_order
RequestedLabels ==
    LET o == IF thumbnail_order = None THEN DEFAULT_THUMBNAIL_ORDER
             ELSE thumbnail_order
    IN {THUMBNAIL_TYPE_MAPPING[o[i]] : i \in 1..Len(o)}

\* the rows of at least three fields of the file of c, and the clean key of
\* the title of each
FullRows(c) ==
    {i \in 1..Len(csv_files[c].rows) : Len(csv_files[c].rows[i]) >= 3}
KeyOfRow(c) == [i \in FullRows(c) |-> clean_title(csv_files[c].rows[i][2])]

\* C11: no selection is a value, not an error: apply_region_preference on
\* an empty list returns None; a clean key none of whose rows has a
\* requested thumbnail type gets no entry in its system's map; every URL of
\* the map comes from a row of a requested type; and the other keys are
\* loaded all the same (a key whose rows of requested types all have a URL
\* has an entry).
C11_NoSelectionIsAValue ==
    /\ apply_region_preference(<<>>, load_region_priority) = None
    /\ \A c \in DOMAIN image_map :
          LET rows == csv_files[c].rows
              key == KeyOfRow(c)
              requested == {i \in FullRows(c) : rows[i][1] \in RequestedLabels}
          IN /\ \A i \in FullRows(c) :
                   (\A j \in requested : key[j] # key[i])
                       => key[i] \notin DOMAIN image_map[c]
             /\ \A k \in DOMAIN image_map[c] :
                   \E i \in requested :
                       key[i] = k /\ rows[i][3] = image_map[c][k]
             /\ \A i \in requested :
                   (\A j \in requested : key[j] = key[i] => rows[j][3] # <<>>)
                       => key[i] \in DOMAIN image_map[c]

\* a catalog loaded to its end where one key has rows of unrequested types
\* only and no entry, and another key has an entry
C11_Witness ==
    /\ lpc = "done"
    /\ GENESIS \in DOMAIN image_map
    /\ \E i \in FullRows(GENESIS) :
          /\ csv_files[GENESIS].rows[i][1] \in
                {"Named_Snaps", "Named_Boxarts", "Named_Titles"}
          /\ \A j \in FullRows(GENESIS) :
                KeyOfRow(GENESIS)[j] = KeyOfRow(GENESIS)[i]
                    => csv_files[GENESIS].rows[j][1] \notin RequestedLabels
          /\ KeyOfRow(GENESIS)[i] \notin DOMAIN image_map[GENESIS]
    /\ DOMAIN image_map[GENESIS] # {}

\* the rows without the row at position i
RemoveAt(rows, i) == SubSeq(rows, 1, i - 1) \o SubSeq(rows, i + 1, Len(rows))

\* the labels of THUMBNAIL_TYPE_MAPPING
RecognisedLabels ==
    {THUMBNAIL_TYPE_MAPPING[t] : t \in DOMAIN THUMBNAIL_TYPE_MAPPING}

\* the row has fewer than three fields, or a label that is none of the
\* thumbnail types
IgnoredRow(row) == Len(row) < 3 \/ row[1] \notin RecognisedLabels

\* C20: a catalog row with fewer than 3 fields, or whose label is no
\* recognised thumbnail type, is ignored without error: the selection map
\* of a catalog file equals the map of the same file without that row.
C20_IgnoredRowsChangeNothing ==
    \A c \in DOMAIN image_map :
        \A i \in 1..Len(csv_files[c].rows) :
            IgnoredRow(csv_files[c].rows[i]) =>
                image_map[c] =
                    ConsoleMap(RemoveAt(csv_files[c].rows, i),
                               csv_image_types(thumbnail_order),
                               load_region_priority)

\* a catalog file loaded with a row of two fields, a row of an unrecognised
\* label and a selection
C20_Witness ==
    /\ lpc = "done"
    /\ GENESIS \in DOMAIN image_map
    /\ DOMAIN image_map[GENESIS] # {}
    /\ \E i \in 1..Len(csv_files[GENESIS].rows) :
          Len(csv_files[GENESIS].rows[i]) < 3
    /\ \E i \in 1..Len(csv_files[GENESIS].rows) :
          /\ Len(csv_files[GENESIS].rows[i]) >= 3
          /\ csv_files[GENESIS].rows[i][1] \notin RecognisedLabels

----------------------------------------------------------------------------
(* Claims about discover_roms and generate_wget_commands, checked under
   SpecJoin *)

\* where rom_map holds a ROM, and the ROMs it holds: <<system, key, path>>
RetainedAt ==
    UNION {{<<i, j>> : j \in 1..Len(rom_map[i][2])} : i \in 1..Len(rom_map)}
RomAt(p) == <<rom_map[p[1]][1], rom_map[p[1]][2][p[2]][1],
              rom_map[p[1]][2][p[2]][2]>>
Retained == {RomAt(p) : p \in RetainedAt}

\* the retained ROMs whose system is in the image map and whose key is in
\* that system's selections, and the URL selected for them
Matched ==
    {r \in Retained :
        r[1] \in DOMAIN image_map /\ r[2] \in DOMAIN image_map[r[1]]}
UrlFor(r) == image_map[r[1]][r[2]]

\* the ROM path with its extension replaced by the extension of the URL's
\* path, ".png" when the URL's path has none
ExpectedExt(url) ==
    IF PathSuffix(UrlPath(url)) = <<>> THEN <<".", "p", "n", "g">>
    ELSE PathSuffix(UrlPath(url))
ExpectedDest(r) == <<r[3][1], PathStem(r[3][2]) \o ExpectedExt(UrlFor(r))>>
ExpectedCommand(r) == <<"wget", Quote(UrlFor(r)), "-O", ExpectedDest(r)>>

\* the path is an entry of the ROM directory
OnDisk(path) ==
    \E i \in 1..Len(rom_files) :
        rom_files[i].folder = path[1] /\ rom_files[i].name = path[2]

NoDestinationExists == \A r \in Matched : ~OnDisk(ExpectedDest(r))

\* C5: when no destination exists, generate_wget_commands yields exactly one
\* command for each retained ROM whose system is in the image map and whose
\* clean key is in that system's selections, made of the ROM's path and the
\* URL selected for that (system, key), and nothing else: a ROM whose key
\* has no selection and a selection that has no ROM produce nothing.
C5_OneCommandPerMatch ==
    (gpc = "done" /\ NoDestinationExists) =>
        /\ Len(commands) = Cardinality(Matched)
        /\ \A r \in Matched :
              Cardinality({n \in 1..Len(commands) :
                              commands[n] = ExpectedCommand(r)}) = 1

\* a run where no destination exists, with a matched ROM, a retained ROM of
\* a catalogued system whose key has no selection, and a selection without
\* ROM
C5_Witness ==
    /\ gpc = "done"
    /\ NoDestinationExists
    /\ Matched # {}
    /\ \E r \in Retained \ Matched : r[1] \in DOMAIN image_map
    /\ \E c \in DOMAIN image_map : \E k \in DOMAIN image_map[c] :
          \A r \in Retained : ~(r[1] = c /\ r[2] = k)

\* C6: the destination of every command is the ROM path of a matched pair
\* with its extension replaced by the extension of the URL's path (".png"
\* when the URL's path has none), and no command is yielded for a matched
\* pair whose destination already exists.
C6_DestinationAndExistsSkip ==
    /\ \A n \in 1..Len(commands) :
          \E r \in Matched :
              /\ commands[n][2] = Quote(UrlFor(r))
              /\ commands[n][4] = ExpectedDest(r)
    /\ \A r \in Matched :
          OnDisk(ExpectedDest(r)) =>
              \A n \in 1..Len(commands) : commands[n][4] # ExpectedDest(r)

\* a run that skipped a matched pair because its destination exists, and
\* yielded a command for another pair
C6_Witness ==
    /\ gpc = "done"
    /\ \E r \in Matched : OnDisk(ExpectedDest(r))
    /\ commands # <<>>

\* the systems of the ROM map that the image map does not have
MissingSystems ==
    {rom_map[i][1] : i \in {j \in 1..Len(rom_map) :
                                rom_map[j][1] \notin DOMAIN image_map}}

\* how many times the line is among the lines printed
TimesPrinted(line) ==
    Cardinality({n \in 1..Len(diagnostics) : diagnostics[n] = line})

\* the lines printed that are no warning of discover_roms
GenerateLines ==
    {n \in 1..Len(diagnostics) :
        diagnostics[n][1] \notin {"duplicate", "unmapped"}}

\* C12: generate_wget_commands prints the missing-system warning exactly
\* once for each system of the ROM map that the image map does not have,
\* however many ROMs the system holds, yields no command for a ROM of such
\* a system, and prints nothing else: no line for a ROM whose system is
\* present and whose key has no selection.
C12_OneWarningPerMissingSystem ==
    gpc = "done" =>
        /\ \A c \in MissingSystems : TimesPrinted(<<"missing", c>>) = 1
        /\ Cardinality(GenerateLines) = Cardinality(MissingSystems)
        /\ \A r \in Retained :
              r[1] \in MissingSystems =>
                  \A n \in 1..Len(commands) : commands[n][4][1] # r[3][1]

\* a run with a missing system that holds two ROMs or more, and a ROM of a
\* present system whose key has no selection
C12_Witness ==
    /\ gpc = "done"
    /\ \E c \in MissingSystems :
          Cardinality({r \in Retained : r[1] = c}) >= 2
    /\ \E r \in Retained :
          /\ r[1] \in DOMAIN image_map
          /\ r[2] \notin DOMAIN image_map[r[1]]

\* the ROM files of the listing: regular files with a clean key
IsRom(i) == rom_files[i].is_file /\ clean_title(rom_files[i].name) # <<>>
FolderRoms(f) == {i \in 1..Len(rom_files) : IsRom(i) /\ rom_files[i].folder = f}
Folders == {rom_files[i].folder : i \in 1..Len(rom_files)}

\* the folder holds exactly two ROM files, both of the same key, and no
\* other folder of the listing holds a ROM of the same system
TwoOfOneKey(f) ==
    /\ Cardinality(FolderRoms(f)) = 2
    /\ \A i, j \in FolderRoms(f) :
          clean_title(rom_files[i].name) = clean_title(rom_files[j].name)
    /\ \A g \in Folders \ {f} :
          MapConsole(g) = MapConsole(f) => FolderRoms(g) = {}

\* the warnings of discover_roms that concern the folder
DuplicateWarningsOf(f) ==
    {n \in 1..Len(diagnostics) :
        diagnostics[n][1] = "duplicate" /\ diagnostics[n][2] = MapConsole(f)}
UnmappedWarningsOf(f) ==
    {n \in 1..Len(diagnostics) :
        diagnostics[n][1] = "unmapped" /\ diagnostics[n][2] = f}

FilesOf(c, k) ==
    {i \in 1..(file_idx - 1) :
        /\ rom_files[i].is_file
        /\ MapConsole(rom_files[i].folder) = c
        /\ clean_title(rom_files[i].name) = k}

\* C7: discover_roms holds at most one ROM per (canonical system, clean
\* key), the first file of the listing with that system and key; the later
\* files with the same system and key are discarded, whatever folder they
\* are in.
C7_FirstFilePerKey ==
    /\ \A p, q \in RetainedAt :
          (RomAt(p)[1] = RomAt(q)[1] /\ RomAt(p)[2] = RomAt(q)[2]) => p = q
    /\ \A r \in Retained :
          /\ FilesOf(r[1], r[2]) # {}
          /\ r[3] = AbsPath(rom_files[Min(FilesOf(r[1], r[2]))])
    /\ \A i \in 1..(file_idx - 1) :
          (rom_files[i].is_file /\ clean_title(rom_files[i].name) # <<>>) =>
              \E r \in Retained :
                  /\ r[1] = MapConsole(rom_files[i].folder)
                  /\ r[2] = clean_title(rom_files[i].name)

\* a listing with a ROM in genesis and a later one with the same key in
\* megadrive: the one of genesis is held
C7_Witness ==
    /\ dpc = "done"
    /\ \E i, j \in 1..Len(rom_files) :
          /\ i < j
          /\ rom_files[i].is_file /\ rom_files[j].is_file
          /\ rom_files[i].folder = "genesis"
          /\ rom_files[j].folder = "megadrive"
          /\ clean_title(rom_files[i].name) = clean_title(rom_files[j].name)
          /\ <<GENESIS, clean_title(rom_files[i].name),
               AbsPath(rom_files[i])>> \in Retained

----------------------------------------------------------------------------
(* Claims about the two validators, checked under SpecValidate *)

NoRepeats(r) == \A i, j \in 1..Len(r) : r[i] = r[j] => i = j

\* r holds the tokens of ts, each once, in the order of their first
\* occurrence in ts
FirstOccurrencesOf(r, ts) ==
    /\ NoRepeats(r)
    /\ {r[i] : i \in 1..Len(r)} = {ts[i] : i \in 1..Len(ts)}
    /\ \A a, b \in 1..Len(r) :
          a < b =>
              Min({i \in 1..Len(ts) : ts[i] = r[a]})
                  < Min({i \in 1..Len(ts) : ts[i] = r[b]})

\* the pieces between the commas of the argument, trimmed; for a region
\* also case-folded, the blank ones left out
TrimmedPieces(x) == [i \in 1..Len(Split(x, ",")) |-> Strip(Split(x, ",")[i])]
NonBlank(t) == t # <<>>
FoldedPieces(x) ==
    LET kept == SelectSeq(TrimmedPieces(x), NonBlank)
    IN [i \in 1..Len(kept) |-> Lower(kept[i])]

\* C17: both validators return the accepted tokens in input order, every
\* repeated token collapsed to its first occurrence (region tokens compared
\* after trimming and case folding): the list returned never holds a token
\* twice.
C17_FirstOccurrenceKept ==
    /\ (vpc \in {"region_priority", "done"} /\ ~validated_order.raised) =>
          /\ NoRepeats(validated_order.value)
          /\ Strip(order_string) # <<>> =>
                FirstOccurrencesOf(
                    validated_order.value,
                    [i \in 1..Len(TrimmedPieces(order_string)) |->
                        TypeOf(TrimmedPieces(order_string)[i])])
    /\ vpc = "done" =>
          /\ NoRepeats(validated_priority)
          /\ FoldedPieces(priority_string) # <<>> =>
                FirstOccurrencesOf(validated_priority,
                                   FoldedPieces(priority_string))

\* both validators have returned a list shorter than the list of the tokens
\* of their argument, of two tokens or more
C17_Witness ==
    /\ vpc = "done"
    /\ ~validated_order.raised
    /\ Len(validated_order.value) >= 2
    /\ Len(validated_order.value) < Len(TrimmedPieces(order_string))
    /\ Len(validated_priority) >= 2
    /\ Len(validated_priority) < Len(FoldedPieces(priority_string))

----------------------------------------------------------------------------
(* Claims about main, checked under SpecMain *)

IsCommandLine(line) == line[1] = "wget"

\* C14: every diagnostic line (the warnings, the progress messages and the
\* count) is written to a stream different from the one the command lines
\* are written to: the stream of the commands, sys.stdout, carries nothing
\* but command lines.
C14_CommandStreamCarriesOnlyCommands ==
    \A n \in 1..Len(stdout) : IsCommandLine(stdout[n])

\* the value of --thumbnail-order holds a token that is no thumbnail type
HasInvalidToken ==
    /\ Strip(order_string) # <<>>
    /\ \E i \in 1..Len(TrimmedPieces(order_string)) :
          TrimmedPieces(order_string)[i] \notin {Snapshot, Boxart, TitleScreen}

\* C15: when --thumbnail-order holds a token outside {snapshot, boxart,
\* title_screen}, main aborts with a non-zero exit status before any I/O:
\* at no point of the run has a catalog file been read, the ROM directory
\* been listed or a command been produced or printed.
C15_AbortBeforeAnyIO ==
    HasInvalidToken =>
        /\ io_log = <<>>
        /\ commands = <<>>
        /\ stdout = <<>>
        /\ mpc = "exited" => exit_status = 1

\* a run that has aborted on an argument with a valid and an invalid token,
\* the message on sys.stderr
C15_Witness ==
    /\ mpc = "exited"
    /\ HasInvalidToken
    /\ \E i \in 1..Len(TrimmedPieces(order_string)) :
          TrimmedPieces(order_string)[i] = Boxart
    /\ Len(stderr) = 1
    /\ exit_status = 1

C19_SameOutputTwice ==
    (run = 2 /\ mpc = "exited") => stdout = first_run.stdout

\* a second run that has read the catalog files in another order than the
\* first, and printed two commands or more
C19_Witness ==
    /\ run = 2
    /\ mpc = "exited"
    /\ io_log # first_run.io_log
    /\ Len(commands) >= 2
    /\ stdout = first_run.stdout

----------------------------------------------------------------------------
(* Catalog files that cannot be read *)

\* the systems whose catalog file is read and parsed without an exception
ReadableSystems == {c \in DOMAIN csv_files : csv_files[c].readable}

\* the catalog without the files that fail
ReadableCatalog == [c \in ReadableSystems |-> csv_files[c]]

\* C21: once load_csv_data has gone through a file, the system is in the
\* image map exactly when the file was read without error; a file that fails
\* leaves nothing behind, rows parsed before the failure included, and the
\* map returned is the one returned for the catalog without the failing
\* files; a file without content gives the system an empty selection map.
C21_FailedFileSkippedEntirely ==
    /\ \A c \in DOMAIN csv_files \ pending_files :
          /\ c \in DOMAIN image_map <=> csv_files[c].readable
          /\ (csv_files[c].readable /\ csv_files[c].rows = <<>>)
                => DOMAIN image_map[c] = {}
    /\ lpc = "done" =>
          \A order \in Orders(ReadableSystems) :
              image_map = load_csv_data(ReadableCatalog, order,
                                        thumbnail_order, load_region_priority)

\* load_csv_data has returned; the file of one system failed after a row
\* had been parsed and the system is absent, the file of the other system
\* was read and a URL was selected from it
C21_Witness ==
    /\ lpc = "done"
    /\ \E c \in DOMAIN csv_files :
          /\ ~csv_files[c].readable
          /\ csv_files[c].rows # <<>>
          /\ c \notin DOMAIN image_map
    /\ \E c \in DOMAIN image_map : DOMAIN image_map[c] # {}

----------------------------------------------------------------------------
(* The system a folder is filed under *)

\* the system the alias table gives for a folder
CanonicalName(folder) ==
    CASE folder \in {"genesis", "megadrive"} -> GENESIS
      [] folder = "mame" -> MAME
      [] folder = "snes" -> SNES
      [] OTHER -> folder

AliasTable == {"genesis", "megadrive", "mame", "snes"}

\* C22: every ROM discover_roms retains is filed under the canonical name
\* of its folder when the folder is in the alias table and under the
\* folder's own name otherwise; a folder outside the table that a ROM is
\* retained from has its unmapped-folder warning printed, and no such
\* warning is ever printed for a folder of the table.
C22_FiledUnderCanonicalName ==
    /\ \A r \in Retained : r[1] = CanonicalName(r[3][1])
    /\ \A r \in Retained :
          r[3][1] \notin AliasTable => UnmappedWarningsOf(r[3][1]) # {}
    /\ \A f \in AliasTable : UnmappedWarningsOf(f) = {}

\* discover_roms has returned; it retained a ROM from each of two folders
\* that the table gives the same system, and a ROM from a folder outside
\* the table
C22_Witness ==
    /\ dpc = "done"
    /\ \E r1, r2 \in Retained :
          /\ r1[3][1] = "genesis" /\ r2[3][1] = "megadrive"
          /\ r1[1] = r2[1]
    /\ \E r \in Retained : r[3][1] = "custom" /\ r[1] = "custom"

----------------------------------------------------------------------------
(* Titles without a "." *)

\* steps 2 and 3 alone: the strip loop and the trimming, on the string itself
StripAndTrim(x) == Strip(StripLoop(x))

\* C23: for every input without a ".", clean_title returns what the strip
\* loop and the trimming alone give on the input itself, and the input
\* trimmed when it holds no "(" either.
C23_NoDotNoExtensionRemoval ==
    (pc = "done" /\ Find(raw, ".") = 0) =>
        /\ result = StripAndTrim(raw)
        /\ Find(raw, "(") = 0 => result = Strip(raw)

----------------------------------------------------------------------------
(* Termination of clean_title *)

\* C24: clean_title is total and terminating. On every input, unmatched
\* parentheses included, every iteration of the strip loop leaves a strictly
\* shorter working string, the call returns, and what it returns is a
\* string; the empty input and "()" both give the empty key.
C24_TotalAndTerminating ==
    /\ <>(pc = "done")
    /\ [][(pc = "loop" /\ pc' = "loop") => Len(title') < Len(title)]_vars
    /\ [](pc = "done" =>
            /\ result \in Seq(CleanAlphabet)
            /\ raw \in {<<>>, <<"(", ")">>} => result = <<>>)

\* the call has returned on an input whose last "(" is never closed, after
\* two iterations of the strip loop
C24_Witness ==
    /\ pc = "done"
    /\ raw = <<"a", "(", ")", ")", "(">>
    /\ result = <<"a">>

----------------------------------------------------------------------------
(* The order of the lines of a run *)

\* where sys.stdout holds a command line, a warning of discover_roms or of
\* generate_wget_commands, the count, the no-match message
CommandLinesAt == {i \in 1..Len(stdout) : stdout[i][1] = "wget"}
WarningsAt ==
    {i \in 1..Len(stdout) : stdout[i][1] \in {"duplicate", "unmapped", "missing"}}
CountsAt == {i \in 1..Len(stdout) : stdout[i][1] = "found"}
NoMatchAt ==
    {i \in 1..Len(stdout) :
        stdout[i] = <<"progress", "No matching images found for ROMs.">>}

\* C25: no command is printed before all are collected, so every warning of
\* the discovery and of the matching precedes the first command line; a run
\* that collected N >= 1 commands prints one line with the count N and
\* right after it the N command lines, and nothing after them; a run that
\* collected none prints the no-match message and no command line.
C25_OutputOrder ==
    /\ mpc \in {"validate", "load", "discover", "generate", "report"}
          => CommandLinesAt = {}
    /\ \A w \in WarningsAt : \A c \in CommandLinesAt : w < c
    /\ (mpc = "exited" /\ exit_status = 0 /\ Len(commands) >= 1) =>
          /\ Cardinality(CountsAt) = 1
          /\ \A s \in CountsAt :
                /\ stdout[s][2] = Len(commands)
                /\ CommandLinesAt = (s + 1)..(s + Len(commands))
                /\ Len(stdout) = s + Len(commands)
          /\ NoMatchAt = {}
    /\ (mpc = "exited" /\ exit_status = 0 /\ Len(commands) = 0) =>
          /\ NoMatchAt = {Len(stdout)}
          /\ CommandLinesAt = {}
          /\ CountsAt = {}

\* a run has ended that printed a warning of the discovery, a warning of the
\* matching and, after the count, two command lines
C25_Witness ==
    /\ mpc = "exited"
    /\ Len(commands) = 2
    /\ \E i \in WarningsAt : stdout[i][1] = "unmapped"
    /\ \E i \in WarningsAt : stdout[i][1] = "missing"
    /\ Cardinality(CommandLinesAt) = 2

----------------------------------------------------------------------------
(* What discover_roms never stores *)

\* the listing without its entries that are no regular files
RegularFiles == SelectSeq(rom_files, LAMBDA f : f.is_file)

\* the listed files whose clean name is empty
EmptyNamed ==
    {i \in 1..Len(rom_files) :
        rom_files[i].is_file /\ clean_title(rom_files[i].name) = <<>>}

\* C26: no file whose clean name is empty is entered into the ROM map. In
\* the map discover_roms returns, no system has the empty key and every
\* system holds at least one ROM; the entries of the listing that are no
\* regular files contribute nothing: no path of theirs is stored, and the
\* map and the warnings are those of the listing without them.
C26_NoEmptyKey ==
    /\ \A r \in Retained :
          /\ r[2] # <<>>
          /\ \A i \in EmptyNamed : r[3] # AbsPath(rom_files[i])
          /\ \E i \in 1..Len(rom_files) :
                rom_files[i].is_file /\ r[3] = AbsPath(rom_files[i])
    /\ dpc = "done" =>
          /\ \A i \in 1..Len(rom_map) : Len(rom_map[i][2]) >= 1
          /\ rom_map = discover_roms(RegularFiles).rom_map
          /\ gpc = "idle" => diagnostics = discover_roms(RegularFiles).printed

\* discover_roms has returned on a listing that holds a file with an empty
\* clean name, a directory and a ROM; the ROM is the only entry of the map
C26_Witness ==
    /\ dpc = "done"
    /\ EmptyNamed # {}
    /\ \E i \in 1..Len(rom_files) : ~rom_files[i].is_file
    /\ Cardinality(Retained) = 1

----------------------------------------------------------------------------
(* Claims about a second run, checked under SpecRerun *)

\* the files the command lines of the first run name as their destination
Downloaded == {first_run.commands[i][4] : i \in 1..Len(first_run.commands)}

\* the positions of the listing of the first run, in the listing of now
Position(f) == CHOOSE i \in 1..Len(rom_files) : rom_files[i] = f

\* C27: once every command of a run is executed and its destination is a
\* file of the ROM folder, a second run on the same catalog, in which the
\* files of the first listing keep their relative order, yields no command,
\* wherever the new images are listed and although each is a candidate ROM
\* with the key of its ROM.
C27_SecondRunYieldsNothing ==
    (mpc = "done" /\ run = 2) =>
        /\ commands = <<>>
        /\ \A i, j \in 1..Len(first_run.rom_files) :
              i < j => Position(first_run.rom_files[i])
                          < Position(first_run.rom_files[j])
        /\ \A d \in Downloaded : InListing(rom_files, d)

\* the second run has returned; the first run yielded two commands, and one
\* of the images is listed before every file of the first listing and is
\* the ROM the second run retains for its key
C27_Witness ==
    /\ mpc = "done"
    /\ run = 2
    /\ Len(first_run.commands) = 2
    /\ AbsPath(rom_files[1]) \in Downloaded
    /\ \E r \in Retained : r[3] = AbsPath(rom_files[1])

----------------------------------------------------------------------------
(* The strip loop as one truncation *)

\* the string up to its first "(", the whole string when it holds none
CutAtFirstParen(s) ==
    IF \E i \in 1..Len(s) : s[i] = "("
    THEN SubSeq(s, 1, (CHOOSE i \in 1..Len(s) :
                          s[i] = "(" /\ \A j \in 1..(i - 1) : s[j] # "(") - 1)
    ELSE s

\* C28: clean_title(x) is the stem of the last path component of x, cut
\* just before its first "(" and trimmed. The result holds no "(", what
\* follows a parenthesised group goes with the group, and it makes no
\* difference whether the depth scan of an iteration finds a closing ")".
C28_SingleTruncation ==
    pc = "done" =>
        /\ result = Strip(CutAtFirstParen(PathStem(raw)))
        /\ \A i \in 1..Len(result) : result[i] # "("

\* clean_title has returned on a name with a closed group, text after it
\* and an unclosed "(" at its end
C28_Witness ==
    /\ pc = "done"
    /\ raw = <<"a", "(", ")", "a", "(">>
    /\ result = <<"a">>

----------------------------------------------------------------------------
(* One command per ROM, one command per destination *)

\* the commands whose destination lies in the folder of the retained ROM
\* and has the stem of its name
CommandsOf(r) ==
    {n \in 1..Len(commands) :
        /\ commands[n][4][1] = r[3][1]
        /\ PathStem(commands[n][4][2]) = PathStem(r[3][2])}

\* C29: in one run every retained ROM yields at most one command, every
\* command is that of a retained ROM, and no two commands have the same
\* destination path.
C29_DistinctDestinations ==
    /\ \A r \in Retained : Cardinality(CommandsOf(r)) <= 1
    /\ \A n \in 1..Len(commands) : \E r \in Retained : n \in CommandsOf(r)
    /\ \A n1, n2 \in 1..Len(commands) :
          commands[n1][4] = commands[n2][4] => n1 = n2

\* generate_wget_commands has returned; two ROMs of the same file name in
\* the folders of two systems both have their command, and a third file of
\* the same key was dropped as a duplicate
C29_Witness ==
    /\ gpc = "done"
    /\ Len(commands) = 2
    /\ commands[1][4][2] = commands[2][4][2]
    /\ \E n \in 1..Len(diagnostics) : diagnostics[n][1] = "duplicate"

----------------------------------------------------------------------------
(* The legacy selector and the configurable selector *)

\* where the lower-cased title holds the token
OccurrencesOf(token, t) ==
    {i \in 1..(Len(t) - Len(token) + 1) :
        SubSeq(Lower(t), i, i + Len(token) - 1) = token}

\* the characters i..j of the title lie inside a closed parenthesised group
\* whose contents hold no parenthesis
InsideClosedGroup(t, i, j) ==
    \E p \in 1..(i - 1) : \E q \in (j + 1)..Len(t) :
        /\ t[p] = "(" /\ t[q] = ")"
        /\ \A x \in (p + 1)..(q - 1) : t[x] \notin {"(", ")"}

\* every occurrence of 'usa', 'europe' or 'world' in a title of the list
\* lies inside such a group
RegionsOnlyInGroups(es) ==
    \A e \in 1..Len(es) : \A r \in 1..Len(DEFAULT_REGION_ORDER) :
        \A i \in OccurrencesOf(DEFAULT_REGION_ORDER[r], es[e][1]) :
            InsideClosedGroup(es[e][1], i,
                              i + Len(DEFAULT_REGION_ORDER[r]) - 1)

\* C30: on every entry list in which each occurrence of 'usa', 'europe' or
\* 'world' in a (lower-cased) title lies inside a closed parenthesised group
\* without parentheses in its contents, cli.apply_region_preference called
\* with the default region priority returns what
\* match_screenshots.apply_region_preference returns.
C30_LegacyAgreesOnGroupedRegions ==
    (rpc = "done" /\ RegionsOnlyInGroups(entries)) =>
        preferred = legacy_apply_region_preference(entries)

\* both selectors have chosen the second entry of a list of two: its title
\* holds 'usa' in a group that follows an unclosed "(", the first title
\* holds no region of the default priority
C30_Witness ==
    /\ rpc = "done"
    /\ Len(entries) = 2
    /\ entries[1][1] = <<"g">>
    /\ entries[2][1] = <<"(", "(", "U", "s", "a", ")">>
    /\ preferred = entries[2][2]
    /\ legacy_apply_region_preference(entries) = entries[2][2]

====
